---- MODULE Spec2Model ----
(***************************************************************************)
(* Model of the format-string pipeline of custom-format-macros:            *)
(*   parse_format_string  (template scanner, one loop iteration per step)  *)
(*   process_fmt          (one placeholder: custom or standard field)      *)
(*   process_pieces       (argument resolver)                              *)
(* A string is a sequence of one-character strings.  All characters of the *)
(* model are ASCII, so byte offsets and character offsets coincide and     *)
(* every identifier is in Unicode NFC (Id::new never fails).               *)
(***************************************************************************)
EXTENDS Integers, Sequences, FiniteSets, TLC

(***************************************************************************)
(* Bounds of the model                                                     *)
(***************************************************************************)
\* longest template, in fragments, that Init enumerates
MaxFrags == 2
\* longest caller argument list that Init enumerates
MaxArgs == 2

(***************************************************************************)
(* Characters                                                              *)
(***************************************************************************)
Digits == <<"0", "1", "2", "3", "4", "5", "6", "7", "8", "9">>

\* char::is_ascii_digit
is_ascii_digit(c) == \E i \in 1..10 : Digits[i] = c

\* unicode_ident::is_xid_start, restricted to ASCII
is_xid_start(c) ==
    c \in {"a", "b", "c", "d", "e", "f", "g", "h", "i", "j", "k", "l", "m",
           "n", "o", "p", "q", "r", "s", "t", "u", "v", "w", "x", "y", "z"}

\* unicode_ident::is_xid_continue, restricted to ASCII
is_xid_continue(c) == is_xid_start(c) \/ is_ascii_digit(c) \/ c = "_"

\* char::is_whitespace, restricted to ASCII (used by str::trim_end)
is_whitespace(c) == c \in {" ", "\t", "\n", "\r"}

\* the three character classes handed to read_while / read_until
CharClass(class, c) ==
    CASE class = "digit"        -> is_ascii_digit(c)
      [] class = "xid_continue" -> is_xid_continue(c)
      [] class = "open_brace"   -> c = "{"
      [] class = "close_brace"  -> c = "}"
      [] class = "not_digit"        -> ~is_ascii_digit(c)
      [] class = "not_xid_continue" -> ~is_xid_continue(c)
      [] class = "not_open_brace"   -> c # "{"
      [] class = "not_close_brace"  -> c # "}"

\* Display of a usize: write!(s, "{}", n)
RECURSIVE Dec(_)
Dec(n) == IF n < 10 THEN <<Digits[n + 1]>> ELSE Dec(n \div 10) \o <<Digits[(n % 10) + 1]>>

DigitValue(c) == (CHOOSE i \in 1..10 : Digits[i] = c) - 1

\* str::parse::<usize>() of a non-empty run of ASCII digits
RECURSIVE ParseUsize(_)
ParseUsize(s) ==
    IF s = <<>> THEN 0
    ELSE ParseUsize(SubSeq(s, 1, Len(s) - 1)) * 10 + DigitValue(s[Len(s)])

\* &s[from..]
DropFirst(s, n) == SubSeq(s, n + 1, Len(s))

\* &s[..n]
TakeFirst(s, n) == SubSeq(s, 1, n)

(***************************************************************************)
(* StrCursor: the cursor is its remaining text                             *)
(***************************************************************************)
\* number of leading characters of s that satisfy the class
RECURSIVE WhileLen(_, _)
WhileLen(s, class) ==
    IF s = <<>> THEN 0
    ELSE IF CharClass(class, Head(s)) THEN 1 + WhileLen(Tail(s), class)
    ELSE 0

\* read_while that also consumes the character that stopped it
read_while_past_stop(s, class) ==
    [out |-> TakeFirst(s, WhileLen(s, class)),
     rest |-> DropFirst(s, IF WhileLen(s, class) < Len(s) THEN WhileLen(s, class) + 1
                           ELSE WhileLen(s, class))]

\* StrCursor::read_while: [out |-> text read, rest |-> cursor afterwards]
read_while(s, class) ==
    LET n == WhileLen(s, class)
    IN  [out |-> TakeFirst(s, n), rest |-> DropFirst(s, n)]

\* number of leading characters of s that do not satisfy the class
RECURSIVE UntilLen(_, _)
UntilLen(s, class) ==
    IF s = <<>> THEN 0
    ELSE IF ~CharClass(class, Head(s)) THEN 1 + UntilLen(Tail(s), class)
    ELSE 0

\* next that hands out the character and leaves it in place
next_peek(s) == IF s = <<>> THEN [out |-> <<>>, rest |-> s] ELSE [out |-> <<Head(s)>>, rest |-> s]

\* StrCursor::next: [out |-> the character of Option<char>, rest |-> cursor]
next(s) == IF s = <<>> THEN [out |-> <<>>, rest |-> s] ELSE [out |-> <<Head(s)>>, rest |-> Tail(s)]

\* StrCursor::read_until = read_while(|x| !f(x))
read_until(s, class) ==
    LET n == UntilLen(s, class)
    IN  [out |-> TakeFirst(s, n), rest |-> DropFirst(s, n)]

\* StrCursor::read_until_included: Chars::position consumes through the
\* first match, or everything when there is none
read_until_included(s, class) ==
    LET n == UntilLen(s, class)
        m == IF n < Len(s) THEN n + 1 ELSE n
    IN  [out |-> TakeFirst(s, m), rest |-> DropFirst(s, m)]

(***************************************************************************)
(* Data types                                                              *)
(***************************************************************************)
\* ArgKind::Positional(index)
Positional(i) == [kind |-> "Positional", index |-> i, name |-> <<>>]

\* ArgKind::Named(Id(name))
Named(n) == [kind |-> "Named", index |-> 0, name |-> n]

\* Option::<ArgKind>::None
NoArg == [kind |-> "None", index |-> 0, name |-> <<>>]

\* Spec::CompileTime(text)
CompileTime(t) == [kind |-> "CompileTime", text |-> t]

\* Spec::Runtime(text)
Runtime(t) == [kind |-> "Runtime", text |-> t]

\* Option::<Spec>::None
NoSpec == [kind |-> "None", text |-> <<>>]

\* Piece::StdFmt { arg_kind_position, arg_kind_width, arg_kind_precision }
StdFmt(p, w, pr) ==
    [kind |-> "StdFmt", arg_kind_position |-> p, arg_kind_width |-> w,
     arg_kind_precision |-> pr, spec |-> NoSpec]

\* Piece::CustomFmt { arg_kind, spec }
CustomFmt(a, sp) ==
    [kind |-> "CustomFmt", arg_kind_position |-> a, arg_kind_width |-> NoArg,
     arg_kind_precision |-> NoArg, spec |-> sp]

\* Error values: the fixed words of the message, with the index or the name
\* that format! interpolates into it
NoErr == [msg |-> "", index |-> 0, name |-> <<>>]
Err(m) == [msg |-> m, index |-> 0, name |-> <<>>]
ErrIndex(m, i) == [msg |-> m, index |-> i, name |-> <<>>]
ErrName(m, n) == [msg |-> m, index |-> 0, name |-> n]

(***************************************************************************)
(* parse.rs                                                                *)
(***************************************************************************)
IsAlignChar(c) == c \in {"<", "^", ">"}

\* process_align without the lookahead to the second character
process_align_one_char(s) ==
    IF Len(s) >= 1 /\ IsAlignChar(s[1]) THEN [out |-> TakeFirst(s, 1), rest |-> DropFirst(s, 1)]
    ELSE [out |-> <<>>, rest |-> s]

\* process_align: [out |-> the characters returned, rest |-> cursor]
process_align(s) ==
    IF Len(s) >= 2 /\ IsAlignChar(s[2]) THEN [out |-> TakeFirst(s, 2), rest |-> DropFirst(s, 2)]
    ELSE IF Len(s) >= 1 /\ IsAlignChar(s[1]) THEN [out |-> TakeFirst(s, 1), rest |-> DropFirst(s, 1)]
    ELSE [out |-> <<>>, rest |-> s]

\* process_sign
process_sign(s) ==
    IF Len(s) >= 1 /\ s[1] \in {"+", "-"} THEN [out |-> TakeFirst(s, 1), rest |-> DropFirst(s, 1)]
    ELSE [out |-> <<>>, rest |-> s]

\* process_alternate
process_alternate(s) ==
    IF Len(s) >= 1 /\ s[1] = "#" THEN [out |-> TakeFirst(s, 1), rest |-> DropFirst(s, 1)]
    ELSE [out |-> <<>>, rest |-> s]

\* process_sign_aware_zero_pad without the look at the byte after the `0`
process_sign_aware_zero_pad_greedy(s) ==
    IF Len(s) >= 1 /\ s[1] = "0"
    THEN [out |-> TakeFirst(s, 1), rest |-> DropFirst(s, 1)]
    ELSE [out |-> <<>>, rest |-> s]

\* process_sign_aware_zero_pad
process_sign_aware_zero_pad(s) ==
    IF Len(s) >= 1 /\ s[1] = "0" /\ ~(Len(s) >= 2 /\ s[2] = "$")
    THEN [out |-> TakeFirst(s, 1), rest |-> DropFirst(s, 1)]
    ELSE [out |-> <<>>, rest |-> s]

\* parse_argument without the panic on a single underscore
parse_argument_underscore_named(s) ==
    LET integer_argument == read_while(s, "digit")
    IN  IF integer_argument.out # <<>>
        THEN [err |-> NoErr, arg |-> Positional(ParseUsize(integer_argument.out)),
              rest |-> integer_argument.rest]
        ELSE IF s = <<>>
        THEN [err |-> NoErr, arg |-> NoArg, rest |-> s]
        ELSE LET first_char == Head(s)
                 cont == read_while(Tail(s), "xid_continue")
             IN  IF first_char = "_" \/ is_xid_start(first_char)
                 THEN [err |-> NoErr, arg |-> Named(TakeFirst(s, 1 + Len(cont.out))),
                       rest |-> cont.rest]
                 ELSE [err |-> NoErr, arg |-> NoArg, rest |-> s]

\* parse_argument: [err, arg (NoArg for None), rest |-> cursor]
parse_argument(s) ==
    LET integer_argument == read_while(s, "digit")
    IN  IF integer_argument.out # <<>>
        THEN [err |-> NoErr, arg |-> Positional(ParseUsize(integer_argument.out)),
              rest |-> integer_argument.rest]
        ELSE IF s = <<>>
        THEN [err |-> NoErr, arg |-> NoArg, rest |-> s]
        ELSE LET first_char == Head(s)
                 cont == read_while(Tail(s), "xid_continue")
             IN  IF first_char = "_"
                 THEN IF Len(cont.out) = 0
                      THEN [err |-> Err("invalid argument: argument name cannot be a single underscore"),
                            arg |-> NoArg, rest |-> Tail(s)]
                      ELSE [err |-> NoErr, arg |-> Named(TakeFirst(s, 1 + Len(cont.out))),
                            rest |-> cont.rest]
                 ELSE IF is_xid_start(first_char)
                      THEN [err |-> NoErr, arg |-> Named(TakeFirst(s, 1 + Len(cont.out))),
                            rest |-> cont.rest]
                      ELSE [err |-> NoErr, arg |-> NoArg, rest |-> s]

\* Count values; NoCount is Option::<Count>::None
CountArgument(a) == [kind |-> "Argument", arg |-> a, integer |-> <<>>]
CountInteger(t) == [kind |-> "Integer", arg |-> NoArg, integer |-> t]
NoCount == [kind |-> "None", arg |-> NoArg, integer |-> <<>>]

\* process_count_match that tries the digits before the reference
process_count_match_digits_first(s, a, digits) ==
        IF digits.out # <<>>
        THEN [err |-> NoErr, count |-> CountInteger(digits.out), rest |-> digits.rest]
        ELSE IF a.err # NoErr THEN [err |-> a.err, count |-> NoCount, rest |-> a.rest]
        ELSE IF a.arg # NoArg /\ a.rest # <<>> /\ Head(a.rest) = "$"
        THEN [err |-> NoErr, count |-> CountArgument(a.arg), rest |-> Tail(a.rest)]
        ELSE [err |-> NoErr, count |-> NoCount, rest |-> s]

\* process_count, the match on what parse_argument returned: a is the result
\* of parse_argument on the cursor s, digits the digits read at s once the
\* cursor is put back
process_count_match(s, a, digits) ==
        IF a.err # NoErr THEN [err |-> a.err, count |-> NoCount, rest |-> a.rest]
        ELSE IF a.arg # NoArg /\ a.rest # <<>> /\ Head(a.rest) = "$"
        THEN [err |-> NoErr, count |-> CountArgument(a.arg), rest |-> Tail(a.rest)]
        ELSE IF digits.out = <<>>
        THEN [err |-> NoErr, count |-> NoCount, rest |-> s]
        ELSE [err |-> NoErr, count |-> CountInteger(digits.out), rest |-> digits.rest]

\* process_count: [err, count, rest |-> cursor]
process_count(s) == process_count_match(s, parse_argument(s), read_while(s, "digit"))

\* process_width
process_width(s) == process_count(s)

\* Precision values; kind "None" is Option::<Precision>::None
PrecisionAsterisk == [kind |-> "Asterisk", count |-> NoCount]
PrecisionWithCount(c) == [kind |-> "WithCount", count |-> c]
NoPrecision == [kind |-> "None", count |-> NoCount]

\* process_precision_match with None in place of the panic
process_precision_match_lenient(c) ==
    IF c.err # NoErr THEN [err |-> c.err, precision |-> NoPrecision, rest |-> c.rest]
    ELSE IF c.count = NoCount
    THEN [err |-> NoErr, precision |-> NoPrecision, rest |-> c.rest]
    ELSE [err |-> NoErr, precision |-> PrecisionWithCount(c.count), rest |-> c.rest]

\* process_precision, the match on what process_count returned after the dot
process_precision_match(c) ==
    IF c.err # NoErr THEN [err |-> c.err, precision |-> NoPrecision, rest |-> c.rest]
    ELSE IF c.count = NoCount
    THEN [err |-> Err("invalid count in format string"), precision |-> NoPrecision,
          rest |-> c.rest]
    ELSE [err |-> NoErr, precision |-> PrecisionWithCount(c.count), rest |-> c.rest]

\* process_precision: [err, precision, rest |-> cursor]
process_precision(s) ==
    IF ~(Len(s) >= 1 /\ s[1] = ".")
    THEN [err |-> NoErr, precision |-> NoPrecision, rest |-> s]
    ELSE IF Len(s) >= 2 /\ s[2] = "*"
    THEN [err |-> NoErr, precision |-> PrecisionAsterisk, rest |-> DropFirst(s, 2)]
    ELSE process_precision_match(process_count(Tail(s)))

(***************************************************************************)
(* process_fmt                                                             *)
(***************************************************************************)
\* Separator for custom format specifier
CUSTOM_SEPARATOR == <<" ", ":">>

\* str::trim_end
RECURSIVE trim_end(_)
trim_end(s) ==
    IF s # <<>> /\ is_whitespace(s[Len(s)]) THEN trim_end(SubSeq(s, 1, Len(s) - 1)) ELSE s

\* str::find(CUSTOM_SEPARATOR): the zero-based offset of the first
\* occurrence, or -1 for None
find(s, pat) ==
    LET hits == {i \in 0..(Len(s) - Len(pat)) : SubSeq(s, i + 1, i + Len(pat)) = pat}
    IN  IF hits = {} THEN -1 ELSE CHOOSE i \in hits : \A j \in hits : i <= j

\* classify_spec looking at the first character only
classify_spec_first_char(specifier) ==
    IF Len(specifier) >= 1 /\ specifier[1] = "<"
    THEN Runtime(SubSeq(specifier, 2, Len(specifier) - 1))
    ELSE CompileTime(specifier)

\* classify_spec after skipping a blank in front of the specifier
classify_spec_skip_blank(specifier) ==
    IF Len(specifier) >= 1 /\ is_whitespace(specifier[1])
    THEN CompileTime(Tail(specifier))
    ELSE IF Len(specifier) >= 2 /\ specifier[1] = "<" /\ specifier[Len(specifier)] = ">"
    THEN Runtime(SubSeq(specifier, 2, Len(specifier) - 1))
    ELSE CompileTime(specifier)

\* the classification of the specifier of a custom placeholder
\* (process_fmt, `let spec = match (spec_chars.next(), spec_chars.next_back())`)
classify_spec(specifier) ==
    IF Len(specifier) >= 2 /\ specifier[1] = "<" /\ specifier[Len(specifier)] = ">"
    THEN Runtime(SubSeq(specifier, 2, Len(specifier) - 1))
    ELSE CompileTime(specifier)

\* the result of process_fmt: the error or the piece, and the values the
\* three `&mut` parameters hold when it returns
FmtResult(e, p, cpi, nfs, nci) ==
    [err |-> e, piece |-> p, current_positional_index |-> cpi,
     new_format_string |-> nfs, new_current_index |-> nci]

\* the piece returned with an error (never looked at)
NoPiece == StdFmt(NoArg, NoArg, NoArg)

\* process_fmt_custom without `*current_positional_index += 1`
process_fmt_custom_same_position(inner, position, cpi, nfs, nci) ==
    LET a == parse_argument(TakeFirst(inner, position))
        arg_kind == IF a.arg = NoArg THEN Positional(cpi) ELSE a.arg
    IN  IF a.err # NoErr THEN FmtResult(a.err, NoPiece, cpi, nfs, nci)
        ELSE IF a.rest # <<>> THEN FmtResult(Err("invalid format string"), NoPiece, cpi, nfs, nci)
        ELSE FmtResult(NoErr, CustomFmt(arg_kind, classify_spec(DropFirst(inner, position + 2))),
                       cpi, nfs \o <<"}">>, nci)

\* process_fmt_custom without the check that the reference is the whole text
\* before the separator
process_fmt_custom_unchecked_rest(inner, position, cpi, nfs, nci) ==
    LET a == parse_argument(TakeFirst(inner, position))
        arg_kind == IF a.arg = NoArg THEN Positional(cpi) ELSE a.arg
        cpi1 == IF a.arg = NoArg THEN cpi + 1 ELSE cpi
    IN  IF a.err # NoErr THEN FmtResult(a.err, NoPiece, cpi, nfs, nci)
        ELSE FmtResult(NoErr, CustomFmt(arg_kind, classify_spec(DropFirst(inner, position + 2))),
                       cpi1, nfs \o <<"}">>, nci)

\* process_fmt, custom branch (`Some(position)`)
process_fmt_custom(inner, position, cpi, nfs, nci) ==
    LET specifier == DropFirst(inner, position + Len(CUSTOM_SEPARATOR))
        spec == classify_spec(specifier)
        a == parse_argument(TakeFirst(inner, position))
        arg_kind == IF a.arg = NoArg THEN Positional(cpi) ELSE a.arg
        cpi1 == IF a.arg = NoArg THEN cpi + 1 ELSE cpi
    IN  IF a.err # NoErr THEN FmtResult(a.err, NoPiece, cpi, nfs, nci)
        ELSE IF a.rest # <<>> THEN FmtResult(Err("invalid format string"), NoPiece, cpi1, nfs, nci)
        ELSE FmtResult(NoErr, CustomFmt(arg_kind, spec), cpi1, nfs \o <<"}">>, nci)

\* asterisk_swap without the `else` branch: the position is never exchanged
asterisk_swap_never(has_arg_kind, arg_kind_position, new_arg_kind) ==
    [position |-> arg_kind_position, precision |-> new_arg_kind]

\* asterisk_swap without the test of has_arg_kind: the position is always exchanged
asterisk_swap_always(has_arg_kind, arg_kind_position, new_arg_kind) ==
    [position |-> new_arg_kind, precision |-> arg_kind_position]

\* which reference an asterisk precision gives to the position and to the
\* precision (process_fmt, `Some(Precision::Asterisk)`)
asterisk_swap(has_arg_kind, arg_kind_position, new_arg_kind) ==
    IF has_arg_kind
    THEN [position |-> arg_kind_position, precision |-> new_arg_kind]
    ELSE [position |-> new_arg_kind, precision |-> arg_kind_position]

\* process_fmt, standard branch: the match on what process_precision returned
\* (p), with the width reference and the output written so far
process_fmt_precision(p, has_arg_kind, arg_kind_position, arg_kind_width, cpi, nfs2, nci2) ==
    LET pk == p.precision.kind
        prec_is_arg == pk = "WithCount" /\ p.precision.count.kind = "Argument"
        sw == asterisk_swap(has_arg_kind, arg_kind_position, Positional(cpi))
        pos3 == IF pk = "Asterisk" THEN sw.position ELSE arg_kind_position
        arg_kind_precision ==
            IF pk = "Asterisk" THEN sw.precision
            ELSE IF prec_is_arg THEN p.precision.count.arg
            ELSE NoArg
        cpi3 == IF pk = "Asterisk" THEN cpi + 1 ELSE cpi
        nfs3 == IF pk = "Asterisk" \/ prec_is_arg THEN nfs2 \o <<".">> \o Dec(nci2) \o <<"$">>
                ELSE IF pk = "WithCount" THEN nfs2 \o <<".">> \o p.precision.count.integer
                ELSE nfs2
        nci3 == IF pk = "Asterisk" \/ prec_is_arg THEN nci2 + 1 ELSE nci2
    IN  IF p.err # NoErr THEN FmtResult(p.err, NoPiece, cpi, nfs2, nci2)
        ELSE FmtResult(NoErr, StdFmt(pos3, arg_kind_width, arg_kind_precision), cpi3,
                       nfs3 \o p.rest \o <<"}">>, nci3)

\* process_fmt_width without `*new_current_index += 1`
process_fmt_width_same_index(w, has_arg_kind, arg_kind_position, cpi, nfs1, nci) ==
    LET width_is_arg == w.count.kind = "Argument"
        arg_kind_width == IF width_is_arg THEN w.count.arg ELSE NoArg
        nfs2 == IF width_is_arg THEN nfs1 \o Dec(nci) \o <<"$">>
                ELSE IF w.count.kind = "Integer" THEN nfs1 \o w.count.integer
                ELSE nfs1
    IN  IF w.err # NoErr THEN FmtResult(w.err, NoPiece, cpi, nfs1, nci)
        ELSE process_fmt_precision(process_precision(w.rest), has_arg_kind, arg_kind_position,
                                   arg_kind_width, cpi, nfs2, nci)

\* process_fmt, standard branch: the match on what process_width returned (w),
\* with the output written so far
process_fmt_width(w, has_arg_kind, arg_kind_position, cpi, nfs1, nci) ==
    LET width_is_arg == w.count.kind = "Argument"
        arg_kind_width == IF width_is_arg THEN w.count.arg ELSE NoArg
        nfs2 == IF width_is_arg THEN nfs1 \o Dec(nci) \o <<"$">>
                ELSE IF w.count.kind = "Integer" THEN nfs1 \o w.count.integer
                ELSE nfs1
        nci2 == IF width_is_arg THEN nci + 1 ELSE nci
    IN  IF w.err # NoErr THEN FmtResult(w.err, NoPiece, cpi, nfs1, nci)
        ELSE process_fmt_precision(process_precision(w.rest), has_arg_kind, arg_kind_position,
                                   arg_kind_width, cpi, nfs2, nci2)

\* process_fmt_spec that consumes the flags without copying them
process_fmt_spec_flags_dropped(s, has_arg_kind, arg_kind_position, cpi, nfs, nci) ==
    LET al == process_align(s)
        sg == process_sign(al.rest)
        alt == process_alternate(sg.rest)
        zp == process_sign_aware_zero_pad(alt.rest)
    IN  process_fmt_width(process_width(zp.rest), has_arg_kind, arg_kind_position, cpi,
                          nfs \o <<":">>, nci)

\* process_fmt_spec that looks for `#` before the sign
process_fmt_spec_alternate_first(s, has_arg_kind, arg_kind_position, cpi, nfs, nci) ==
    LET al == process_align(s)
        alt == process_alternate(al.rest)
        sg == process_sign(alt.rest)
        zp == process_sign_aware_zero_pad(sg.rest)
    IN  process_fmt_width(process_width(zp.rest), has_arg_kind, arg_kind_position, cpi,
                          nfs \o <<":">> \o al.out \o alt.out \o sg.out \o zp.out, nci)

\* process_fmt, standard branch after `Some(':')`
process_fmt_spec(s, has_arg_kind, arg_kind_position, cpi, nfs, nci) ==
    LET al == process_align(s)
        sg == process_sign(al.rest)
        alt == process_alternate(sg.rest)
        zp == process_sign_aware_zero_pad(alt.rest)
    IN  process_fmt_width(process_width(zp.rest), has_arg_kind, arg_kind_position, cpi,
                          nfs \o <<":">> \o al.out \o sg.out \o alt.out \o zp.out, nci)

\* process_fmt, standard branch: the match on what parse_argument returned for
\* the position (a)
process_fmt_position(a, cpi, nfs, nci) ==
    LET has_arg_kind == a.arg # NoArg
        arg_kind_position == IF has_arg_kind THEN a.arg ELSE Positional(cpi)
        cpi1 == IF has_arg_kind THEN cpi ELSE cpi + 1
    IN  IF a.err # NoErr THEN FmtResult(a.err, NoPiece, cpi, nfs, nci)
        ELSE IF a.rest = <<>>
        THEN FmtResult(NoErr, StdFmt(arg_kind_position, NoArg, NoArg), cpi1, nfs \o <<"}">>, nci)
        ELSE IF Head(a.rest) = ":"
        THEN process_fmt_spec(Tail(a.rest), has_arg_kind, arg_kind_position, cpi1, nfs, nci)
        ELSE FmtResult(Err("invalid format string"), NoPiece, cpi1, nfs, nci)

\* process_fmt, standard branch (`None`)
process_fmt_std(inner, cpi, nfs, nci) == process_fmt_position(parse_argument(inner), cpi, nfs, nci)

\* process_fmt without `*new_current_index += 1` after the position is written
process_fmt_same_index(fmt, cpi, nfs, nci) ==
    IF ~(Len(fmt) >= 2 /\ fmt[1] = "{" /\ fmt[Len(fmt)] = "}")
    THEN FmtResult(Err("invalid format string"), NoPiece, cpi, nfs, nci)
    ELSE LET inner == trim_end(SubSeq(fmt, 2, Len(fmt) - 1))
             nfs1 == nfs \o <<"{">> \o Dec(nci)
             position == find(inner, CUSTOM_SEPARATOR)
         IN  IF position >= 0
             THEN process_fmt_custom(inner, position, cpi, nfs1, nci)
             ELSE process_fmt_std(inner, cpi, nfs1, nci)

\* process_fmt without the check of the two delimiters
process_fmt_unchecked_braces(fmt, cpi, nfs, nci) ==
    LET inner == trim_end(SubSeq(fmt, 2, Len(fmt) - 1))
        nfs1 == nfs \o <<"{">> \o Dec(nci)
        nci1 == nci + 1
        position == find(inner, CUSTOM_SEPARATOR)
    IN  IF position >= 0
        THEN process_fmt_custom(inner, position, cpi, nfs1, nci1)
        ELSE process_fmt_std(inner, cpi, nfs1, nci1)

\* process_fmt(fmt, &mut current_positional_index, &mut new_format_string,
\*             &mut new_current_index)
process_fmt(fmt, cpi, nfs, nci) ==
    IF ~(Len(fmt) >= 2 /\ fmt[1] = "{" /\ fmt[Len(fmt)] = "}")
    THEN FmtResult(Err("invalid format string"), NoPiece, cpi, nfs, nci)
    ELSE LET inner == trim_end(SubSeq(fmt, 2, Len(fmt) - 1))
             nfs1 == nfs \o <<"{">> \o Dec(nci)
             nci1 == nci + 1
             position == find(inner, CUSTOM_SEPARATOR)
         IN  IF position >= 0
             THEN process_fmt_custom(inner, position, cpi, nfs1, nci1)
             ELSE process_fmt_std(inner, cpi, nfs1, nci1)

(***************************************************************************)
(* process_pieces                                                          *)
(***************************************************************************)
\* Argument { ident: Some(name), .. } and Argument { ident: None, .. }
NamedArgument(n) == [named |-> TRUE, name |-> n]
UnnamedArgument == [named |-> FALSE, name |-> <<>>]

\* positional_follows_named without the skip to the first named argument: as
\* soon as one argument is named, all must be
positional_follows_named_any(args) ==
    /\ \E i \in 1..Len(args) : args[i].named
    /\ \E j \in 1..Len(args) : ~args[j].named

\* the ordering check at the head of process_pieces: Iterator::position
\* consumes through the first named argument, Iterator::all then requires
\* every later argument to be named
positional_follows_named(args) ==
    \E i \in 1..Len(args) :
        /\ args[i].named
        /\ \A h \in 1..(i - 1) : ~args[h].named
        /\ \E j \in (i + 1)..Len(args) : ~args[j].named

\* HashMap::insert
map_insert(map, key, value) ==
    [k \in DOMAIN map \cup {key} |-> IF k = key THEN value ELSE map[k]]

\* insert_named_args without the test of what HashMap::insert returns: a later
\* argument silently replaces an earlier one of the same name
RECURSIVE insert_named_args_overwrite(_, _, _)
insert_named_args_overwrite(args, i, map) ==
    IF i > Len(args) THEN [err |-> [msg |-> "", index |-> 0, name |-> <<>>], map |-> map]
    ELSE IF ~args[i].named THEN insert_named_args_overwrite(args, i + 1, map)
    ELSE insert_named_args_overwrite(args, i + 1, map_insert(map, args[i].name, i - 1))

\* the loop that fills named_args_positions, from the (one-based) argument i
\* on: [err, map]
RECURSIVE insert_named_args(_, _, _)
insert_named_args(args, i, map) ==
    IF i > Len(args) THEN [err |-> NoErr, map |-> map]
    ELSE IF ~args[i].named THEN insert_named_args(args, i + 1, map)
    ELSE IF args[i].name \in DOMAIN map
    THEN [err |-> ErrName("duplicate argument named", args[i].name), map |-> map]
    ELSE insert_named_args(args, i + 1, map_insert(map, args[i].name, i - 1))

\* positional_bound counting the slots of the captured names too
positional_bound_all_slots(args, new) == Len(args) + Len(new)

\* the bound a Positional index is checked against
positional_bound(args, new) == Len(args)

\* the slot given to a name that no caller argument carries
new_slot(args, new) == Len(args) + Len(new)

\* an entry of arg_indices
Entry(i, sp) == [index |-> i, spec |-> sp]

\* used_args.get_mut(index): mark a caller argument as used
mark_used(used, index) ==
    IF index < Len(used) THEN [used EXCEPT ![index + 1] = TRUE] ELSE used

\* process_arg_kind without `entry.insert(new_index)`: a captured name is not
\* remembered
process_arg_kind_forgetful(st, args, arg_kind, spec) ==
    IF arg_kind.kind = "Positional"
    THEN IF arg_kind.index >= Len(args)
         THEN [st EXCEPT !.err = ErrIndex("invalid positional argument index", arg_kind.index)]
         ELSE [st EXCEPT !.arg_indices = Append(@, [index |-> arg_kind.index, spec |-> spec]),
                         !.used_args = [i \in 1..Len(@) |-> @[i] \/ i = arg_kind.index + 1]]
    ELSE IF arg_kind.name \in DOMAIN st.named_args_positions
    THEN LET index == st.named_args_positions[arg_kind.name]
         IN  [st EXCEPT !.arg_indices = Append(@, [index |-> index, spec |-> spec]),
                        !.used_args = [i \in 1..Len(@) |-> @[i] \/ i = index + 1]]
    ELSE LET new_index == Len(args) + Len(st.new_args)
         IN  [st EXCEPT !.arg_indices = Append(@, [index |-> new_index, spec |-> spec]),
                        !.new_args = Append(@, arg_kind.name)]

\* the closure process_arg_kind, on the tables it borrows:
\* st = [err, named_args_positions, arg_indices, new_args, used_args]
process_arg_kind(st, args, arg_kind, spec) ==
    IF arg_kind.kind = "Positional"
    THEN IF arg_kind.index >= positional_bound(args, st.new_args)
         THEN [st EXCEPT !.err = ErrIndex("invalid positional argument index", arg_kind.index)]
         ELSE [st EXCEPT !.arg_indices = Append(@, Entry(arg_kind.index, spec)),
                         !.used_args = mark_used(@, arg_kind.index)]
    ELSE IF arg_kind.name \in DOMAIN st.named_args_positions
    THEN LET index == st.named_args_positions[arg_kind.name]
         IN  [st EXCEPT !.arg_indices = Append(@, Entry(index, spec)),
                        !.used_args = mark_used(@, index)]
    ELSE LET new_index == new_slot(args, st.new_args)
         IN  [st EXCEPT !.named_args_positions = map_insert(@, arg_kind.name, new_index),
                        !.arg_indices = Append(@, Entry(new_index, spec)),
                        !.new_args = Append(@, arg_kind.name),
                        !.used_args = mark_used(@, new_index)]

\* piece_refs that walks the precision before the width
piece_refs_precision_first(piece) ==
    IF piece.kind = "CustomFmt" THEN <<piece.arg_kind_position>>
    ELSE <<piece.arg_kind_position>>
         \o (IF piece.arg_kind_precision = NoArg THEN <<>> ELSE <<piece.arg_kind_precision>>)
         \o (IF piece.arg_kind_width = NoArg THEN <<>> ELSE <<piece.arg_kind_width>>)

\* the references of a piece, in the order process_pieces walks them
piece_refs(piece) ==
    IF piece.kind = "CustomFmt" THEN <<piece.arg_kind_position>>
    ELSE <<piece.arg_kind_position>>
         \o (IF piece.arg_kind_width = NoArg THEN <<>> ELSE <<piece.arg_kind_width>>)
         \o (IF piece.arg_kind_precision = NoArg THEN <<>> ELSE <<piece.arg_kind_precision>>)

\* process_arg_kind over the references refs[i..] of one piece, stopping at
\* the first error (the `?`)
RECURSIVE process_refs(_, _, _, _, _)
process_refs(st, args, refs, i, spec) ==
    IF i > Len(refs) \/ st.err # NoErr THEN st
    ELSE process_refs(process_arg_kind(st, args, refs[i], spec), args, refs, i + 1, spec)

\* one iteration of `for piece in pieces`
process_piece(st, args, piece) ==
    process_refs(st, args, piece_refs(piece), 1, IF piece.kind = "CustomFmt" THEN piece.spec ELSE NoSpec)

\* unused_error reporting the last unused argument instead of the first
unused_error_last(args, used) ==
    LET unused == {i \in 1..Len(args) : ~used[i]}
        last == CHOOSE i \in unused : \A j \in unused : i >= j
    IN  IF unused = {} THEN [msg |-> "", index |-> 0, name |-> <<>>]
        ELSE IF args[last].named
        THEN [msg |-> "named argument not used", index |-> 0, name |-> args[last].name]
        ELSE [msg |-> "positional argument not used", index |-> last - 1, name |-> <<>>]

\* unused_error without the search for an unused argument
unused_error_never(args, used) == [msg |-> "", index |-> 0, name |-> <<>>]

\* the completeness check: the error for the first unused argument, if any
unused_error(args, used) ==
    LET unused == {i \in 1..Len(args) : ~used[i]}
        first == CHOOSE i \in unused : \A j \in unused : i <= j
    IN  IF unused = {} THEN NoErr
        ELSE IF args[first].named THEN ErrName("named argument not used", args[first].name)
        ELSE ErrIndex("positional argument not used", first - 1)

(***************************************************************************)
(* output.rs: the emitted code, token tree by token tree                   *)
(***************************************************************************)
\* arg.expr of the caller argument with zero-based index i
ExprOf(i) == [kind |-> "expr", index |-> i, name |-> <<>>, span |-> "span"]

\* Ident::new(name, span)
IdentOf(name, span) == [kind |-> "ident", index |-> 0, name |-> name, span |-> span]

\* the stream `&` tt
Borrow(tt) == [kind |-> "borrow", of |-> tt]

\* Ident::new(&format!("arg{}", index), Span::call_site())
ArgIdent(index) == IdentOf(<<"a", "r", "g">> \o Dec(index), "call_site")

\* the root macro is `::path::format_args!`: its sixth token tree is the
\* identifier format_args
is_format_args(root_macro) == Len(root_macro) >= 6 /\ root_macro[6] = "format_args"

\* one argument of the macro call: args[index] alone, or the formatter
\* constructor applied to the spec literal and args[index]
fmt_arg(entry, args) ==
    [formatter |-> CASE entry.spec.kind = "None"        -> "none"
                     [] entry.spec.kind = "CompileTime" -> "custom_formatter!"
                     [] entry.spec.kind = "Runtime"     -> "runtime::CustomFormatter::new",
     spec |-> entry.spec.text,
     arg |-> args[entry.index + 1]]

\* push_macro_call: root_macro ( first_arg, "new_format_string", fmt_args.. )
push_macro_call(root_macro, first_arg, nfs, arg_indices, args) ==
    [root_macro |-> root_macro, first_arg |-> first_arg, new_format_string |-> nfs,
     fmt_args |-> [k \in 1..Len(arg_indices) |-> fmt_arg(arg_indices[k], args)]]

\* `&expr` of every caller argument, then `&name` of every captured identifier
arg_exprs(args, new_args) ==
    [i \in 1..(Len(args) + Len(new_args)) |->
        Borrow(IF i <= Len(args) THEN ExprOf(i - 1) ELSE IdentOf(new_args[i - Len(args)], "span"))]

\* arg0 .. arg(N-1)
arg_idents(n) == [i \in 1..n |-> ArgIdent(i - 1)]

\* the emitted code: match (scrutinee) { (arm_pat) => call, } or, without
\* match, the call alone
Output(with_match, scrutinee, arm_pat, call) ==
    [with_match |-> with_match, scrutinee |-> scrutinee, arm_pat |-> arm_pat, call |-> call]

\* compute_output without the test for format_args
compute_output_always_match(root_macro, first_arg, args, nfs, arg_indices, new_args) ==
    Output(TRUE, arg_exprs(args, new_args), arg_idents(Len(args) + Len(new_args)),
           push_macro_call(root_macro, first_arg, nfs, arg_indices,
                           arg_idents(Len(args) + Len(new_args))))

\* compute_output(parsed_input, new_format_string, processed_pieces)
compute_output(root_macro, first_arg, args, nfs, arg_indices, new_args) ==
    IF is_format_args(root_macro)
    THEN Output(FALSE, <<>>, <<>>,
                push_macro_call(root_macro, first_arg, nfs, arg_indices, arg_exprs(args, new_args)))
    ELSE Output(TRUE, arg_exprs(args, new_args), arg_idents(Len(args) + Len(new_args)),
                push_macro_call(root_macro, first_arg, nfs, arg_indices,
                                arg_idents(Len(args) + Len(new_args))))

(***************************************************************************)
(* Inputs                                                                  *)
(***************************************************************************)
\* the template fragments that Init concatenates
Frags ==
    << <<"{", "}">>,                                    \* {}
       <<"{", "0", "}">>,                               \* {0}
       <<"{", "1", "}">>,                               \* {1}
       <<"{", "x", "}">>,                               \* {x}
       <<"{", "a", "}">>,                               \* {a}
       <<"{", ":", ".", "*", "}">>,                     \* {:.*}
       <<"{", "1", ":", ".", "*", "}">>,                \* {1:.*}
       <<"{", "a", ":", ".", "*", "}">>,                \* {a:.*}
       <<"{", ":", "x", "$", "}">>,                     \* {:x$}
       <<"{", ":", "1", "$", ".", "a", "$", "}">>,      \* {:1$.a$}
       <<"{", " ", ":", "s", "}">>,                     \* { :s}
       <<"{", "x", " ", ":", "<", " ", "s", ">", " ", "}">>,   \* {x :< s> }
       <<"{", "0", " ", ":", "<", "}">>,                \* {0 :<}
       <<"-">>,                                         \* literal text
       <<"{", "{">>,                                    \* escaped brace
       <<"{", "0", "z", "}">> >>                        \* {0z}, malformed

RECURSIVE Concat(_)
Concat(ss) == IF ss = <<>> THEN <<>> ELSE Head(ss) \o Concat(Tail(ss))

\* templates of the documentation and of the tests
ExampleTemplates ==
    { <<"{", "a", "}", "-", "{", "}", "-", "{", "a", "}">>,              \* {a}-{}-{a}
      <<"{", "x", "}", " ", "{", "x", "}">>,                             \* {x} {x}
      <<"{", "}", " ", "{", "}", " ", "{", "}">>,                        \* {} {} {}
      <<"{", "1", "}", " ", "{", "}", " ", "{", "0", "}", " ", "{", "}">>,  \* {1} {} {0} {}
      <<"{", "2", ":", ".", "*", "}", "{", "}", "{", "}">>,              \* {2:.*}{}{}
      <<"{", "0", "}", " ", "{", "0", "}">>,                             \* {0} {0}
      <<"{", " ", ":", "x", "}", "{", " ", ":", "<", "x", ">", "}">> }   \* { :x}{ :<x>}

Templates ==
    {Concat([i \in 1..Len(f) |-> Frags[f[i]]]) :
        f \in UNION {[1..n -> 1..Len(Frags)] : n \in 0..MaxFrags}}
    \cup ExampleTemplates

\* the names of caller arguments
ArgNames == {<<"a">>, <<"x">>}

Arguments == {UnnamedArgument} \cup {NamedArgument(n) : n \in ArgNames}

\* argument lists of the tests
ExampleArgLists ==
    { <<UnnamedArgument, NamedArgument(<<"a">>), UnnamedArgument>>,
      <<UnnamedArgument, UnnamedArgument, UnnamedArgument>>,
      <<NamedArgument(<<"a">>), NamedArgument(<<"x">>), NamedArgument(<<"x">>), NamedArgument(<<"a">>)>>,
      <<NamedArgument(<<"a">>), NamedArgument(<<"a">>), UnnamedArgument>> }

ArgLists == UNION {[1..n -> Arguments] : n \in 0..MaxArgs} \cup ExampleArgLists

(***************************************************************************)
(* State                                                                   *)
(***************************************************************************)
VARIABLES
    format_string,              \* the template handed to parse_format_string
    arguments,                  \* the caller argument list
    pc,                         \* where the invocation is
    cursor,                     \* parse_format_string: cursor.remaining()
    current_positional_index,   \* parse_format_string: next implicit position
    new_current_index,          \* parse_format_string: next output index
    new_format_string,          \* parse_format_string: the rewritten template
    pieces,                     \* parse_format_string: the pieces so far
    fmt,                        \* parse_format_string: the last placeholder read
    tables,                     \* process_pieces: named_args_positions, arg_indices, new_args, used_args
    next_piece,                 \* process_pieces: the piece the loop is at
    ret,                        \* what the invocation returned
    old_cursor                  \* the clones of the cursor kept for a restore

vars == <<format_string, arguments, pc, cursor, current_positional_index, new_current_index,
          new_format_string, pieces, fmt, tables, next_piece, ret, old_cursor>>

\* nothing returned yet
Running == [status |-> "running", err |-> NoErr, new_format_string |-> <<>>,
            arg_indices |-> <<>>, new_args |-> <<>>]

\* Failed that hands out what had been written and resolved before the error
Failed_with_partial(e) ==
    [status |-> "err", err |-> e, new_format_string |-> new_format_string,
     arg_indices |-> tables.arg_indices, new_args |-> tables.new_args]

\* Err(e)
Failed(e) == [status |-> "err", err |-> e, new_format_string |-> <<>>,
              arg_indices |-> <<>>, new_args |-> <<>>]

\* Ok: the rewritten template with ProcessedPieces { arg_indices, new_args }
Succeeded(nfs, ai, na) == [status |-> "ok", err |-> NoErr, new_format_string |-> nfs,
                           arg_indices |-> ai, new_args |-> na]

\* the tables of process_pieces before any piece is resolved
InitTables(args, map) ==
    [err |-> NoErr, named_args_positions |-> map, arg_indices |-> <<>>, new_args |-> <<>>,
     used_args |-> [i \in 1..Len(args) |-> FALSE]]

NoTables == InitTables(<<>>, <<>>)

Init ==
    /\ format_string \in Templates
    /\ arguments \in ArgLists
    /\ pc = "parse_format_string"
    /\ cursor = format_string
    /\ current_positional_index = 0
    /\ new_current_index = 0
    /\ new_format_string = <<>>
    /\ pieces = <<>>
    /\ fmt = <<>>
    /\ tables = NoTables
    /\ next_piece = 1
    /\ ret = Running
    /\ old_cursor = <<>>

(***************************************************************************)
(* parse_format_string: one action per way through the loop body           *)
(***************************************************************************)
\* the literal text read at the head of an iteration
Literal == read_until(cursor, "open_brace")

starts_with_escape(s) == Len(s) >= 2 /\ s[1] = "{" /\ s[2] = "{"

\* the iteration that finds the input exhausted and breaks out of the loop
ScanEnd ==
    /\ pc = "parse_format_string"
    /\ Literal.rest = <<>>
    /\ cursor' = Literal.rest
    /\ new_format_string' = new_format_string \o Literal.out
    /\ pc' = "process_pieces"
    /\ UNCHANGED <<format_string, arguments, old_cursor, current_positional_index, new_current_index,
                   pieces, fmt, tables, next_piece, ret>>

\* ScanEscape that writes the brace once
ScanEscape_single_brace ==
    /\ pc = "parse_format_string"
    /\ Literal.rest # <<>>
    /\ starts_with_escape(Literal.rest)
    /\ cursor' = DropFirst(Literal.rest, 2)
    /\ new_format_string' = new_format_string \o Literal.out \o <<"{">>
    /\ UNCHANGED <<format_string, arguments, old_cursor, pc, current_positional_index, new_current_index,
                   pieces, fmt, tables, next_piece, ret>>

\* ScanEscape without the two calls of cursor.next()
ScanEscape_no_advance ==
    /\ pc = "parse_format_string"
    /\ Literal.rest # <<>>
    /\ starts_with_escape(Literal.rest)
    /\ cursor' = Literal.rest
    /\ new_format_string' = new_format_string \o Literal.out \o <<"{", "{">>
    /\ UNCHANGED <<format_string, arguments, old_cursor, pc, current_positional_index, new_current_index,
                   pieces, fmt, tables, next_piece, ret>>

\* the iteration that copies an escaped brace
ScanEscape ==
    /\ pc = "parse_format_string"
    /\ Literal.rest # <<>>
    /\ starts_with_escape(Literal.rest)
    /\ cursor' = DropFirst(Literal.rest, 2)
    /\ new_format_string' = new_format_string \o Literal.out \o <<"{", "{">>
    /\ UNCHANGED <<format_string, arguments, old_cursor, pc, current_positional_index, new_current_index,
                   pieces, fmt, tables, next_piece, ret>>

\* the iteration that reads a placeholder and hands it to process_fmt
ScanPlaceholder ==
    /\ pc = "parse_format_string"
    /\ Literal.rest # <<>>
    /\ ~starts_with_escape(Literal.rest)
    /\ \E span \in {read_until_included(Literal.rest, "close_brace")} :
       \E r \in {process_fmt(span.out, current_positional_index,
                             new_format_string \o Literal.out, new_current_index)} :
           /\ cursor' = span.rest
           /\ fmt' = span.out
           /\ current_positional_index' = r.current_positional_index
           /\ new_current_index' = r.new_current_index
           /\ new_format_string' = r.new_format_string
           /\ IF r.err = NoErr
              THEN /\ pieces' = Append(pieces, r.piece)
                   /\ UNCHANGED <<pc, ret>>
              ELSE /\ pc' = "failed"
                   /\ ret' = Failed(r.err)
                   /\ UNCHANGED pieces
    /\ UNCHANGED <<format_string, arguments, old_cursor, tables, next_piece>>

(***************************************************************************)
(* process_pieces                                                          *)
(***************************************************************************)
\* ProcessPiecesBegin with the two checks of the argument list exchanged
ProcessPiecesBegin_duplicate_first ==
    /\ pc = "process_pieces"
    /\ LET named == insert_named_args(arguments, 1, <<>>)
       IN  IF named.err # NoErr
           THEN /\ pc' = "failed"
                /\ ret' = Failed(named.err)
                /\ UNCHANGED tables
           ELSE IF positional_follows_named(arguments)
           THEN /\ pc' = "failed"
                /\ ret' = Failed(Err("positional arguments cannot follow named arguments"))
                /\ UNCHANGED tables
           ELSE /\ pc' = "resolve"
                /\ tables' = InitTables(arguments, named.map)
                /\ UNCHANGED ret
    /\ UNCHANGED <<format_string, arguments, old_cursor, cursor, current_positional_index, new_current_index,
                   new_format_string, pieces, fmt, next_piece>>

\* the checks of the argument list and the construction of the tables
ProcessPiecesBegin ==
    /\ pc = "process_pieces"
    /\ LET named == insert_named_args(arguments, 1, <<>>)
       IN  IF positional_follows_named(arguments)
           THEN /\ pc' = "failed"
                /\ ret' = Failed(Err("positional arguments cannot follow named arguments"))
                /\ UNCHANGED tables
           ELSE IF named.err # NoErr
           THEN /\ pc' = "failed"
                /\ ret' = Failed(named.err)
                /\ UNCHANGED tables
           ELSE /\ pc' = "resolve"
                /\ tables' = InitTables(arguments, named.map)
                /\ UNCHANGED ret
    /\ UNCHANGED <<format_string, arguments, old_cursor, cursor, current_positional_index, new_current_index,
                   new_format_string, pieces, fmt, next_piece>>

\* one iteration of `for piece in pieces`
ResolvePiece ==
    /\ pc = "resolve"
    /\ next_piece <= Len(pieces)
    /\ LET st == process_piece(tables, arguments, pieces[next_piece])
       IN  /\ tables' = st
           /\ IF st.err = NoErr
              THEN /\ next_piece' = next_piece + 1
                   /\ UNCHANGED <<pc, ret>>
              ELSE /\ pc' = "failed"
                   /\ ret' = Failed(st.err)
                   /\ UNCHANGED next_piece
    /\ UNCHANGED <<format_string, arguments, old_cursor, cursor, current_positional_index, new_current_index,
                   new_format_string, pieces, fmt>>

\* the completeness check and the return
Finish ==
    /\ pc = "resolve"
    /\ next_piece > Len(pieces)
    /\ LET e == unused_error(arguments, tables.used_args)
       IN  IF e = NoErr
           THEN /\ pc' = "done"
                /\ ret' = Succeeded(new_format_string, tables.arg_indices, tables.new_args)
           ELSE /\ pc' = "failed"
                /\ ret' = Failed(e)
    /\ UNCHANGED <<format_string, arguments, old_cursor, cursor, current_positional_index, new_current_index,
                   new_format_string, pieces, fmt, tables, next_piece>>

Next ==
    \/ ScanEnd
    \/ ScanEscape
    \/ ScanPlaceholder
    \/ ProcessPiecesBegin
    \/ ResolvePiece
    \/ Finish

Spec == Init /\ [][Next]_vars

(***************************************************************************)
(* Further input populations.  The program is the same (Next); only the    *)
(* templates and argument lists that the invocation starts from differ.    *)
(***************************************************************************)
\* the state in which parse_format_string is entered with template t and
\* caller arguments a
Entered(t, a) ==
    /\ format_string = t
    /\ arguments = a
    /\ pc = "parse_format_string"
    /\ cursor = t
    /\ current_positional_index = 0
    /\ new_current_index = 0
    /\ new_format_string = <<>>
    /\ pieces = <<>>
    /\ fmt = <<>>
    /\ tables = NoTables
    /\ next_piece = 1
    /\ ret = Running
    /\ old_cursor = <<>>

\* longest template, in characters, of the scanner population
MaxScanLen == 5

\* the braces, a name character, a digit, the colon and the underscore
ScanAlphabet == {"{", "}", "a", "0", ":", "_"}

\* every template over the scanner alphabet
ScanTemplates == UNION {[1..n -> ScanAlphabet] : n \in 0..MaxScanLen}

ScanArgLists == {<<>>, <<UnnamedArgument>>}

InitScan == \E t \in ScanTemplates : \E a \in ScanArgLists : Entered(t, a)

SpecScan == InitScan /\ [][Next]_vars

\* the parts a placeholder of the field population is written from:
\* { position junk [: align sign alternate zero width precision type] blank }
\* or { position junk  :specifier blank }
FieldPositions == {<<>>, <<"0">>, <<"a">>}
FieldJunk == {<<>>, <<"!">>}
FieldAligns == {<<>>, <<"<">>, <<" ", "^">>, <<"-", ">">>}
FieldSigns == {<<>>, <<"+">>}
FieldAlternates == {<<>>, <<"#">>}
FieldZeros == {<<>>, <<"0">>}
FieldWidths == {<<>>, <<"3">>, <<"1", "$">>, <<"w", "$">>}
FieldPrecisions == {<<>>, <<".", "6">>, <<".", "*">>, <<".", "2", "$">>, <<".", "d", "$">>}
FieldTypes == {<<>>, <<"?">>, <<"x", "?">>}
FieldSpecifiers == {<<>>, <<"s">>, <<"<", "s", ">">>, <<"%", "a">>}
FieldBlanks == {<<>>, <<" ">>}

\* a standard placeholder without format spec
PlainField(p, j, b) ==
    [kind |-> "plain", position |-> p, junk |-> j, align |-> <<>>, sign |-> <<>>,
     alternate |-> <<>>, zero |-> <<>>, width |-> <<>>, precision |-> <<>>, type |-> <<>>,
     specifier |-> <<>>, blank |-> b]

\* a custom placeholder
CustomField(p, j, sp, b) ==
    [kind |-> "custom", position |-> p, junk |-> j, align |-> <<>>, sign |-> <<>>,
     alternate |-> <<>>, zero |-> <<>>, width |-> <<>>, precision |-> <<>>, type |-> <<>>,
     specifier |-> sp, blank |-> b]

FieldCases ==
    [kind : {"spec"}, position : FieldPositions, junk : FieldJunk, align : FieldAligns,
     sign : FieldSigns, alternate : FieldAlternates, zero : FieldZeros, width : FieldWidths,
     precision : FieldPrecisions, type : FieldTypes, specifier : {<<>>}, blank : FieldBlanks]
    \cup {PlainField(p, j, b) : p \in FieldPositions, j \in FieldJunk, b \in FieldBlanks}
    \cup {CustomField(p, j, sp, b) : p \in FieldPositions, j \in FieldJunk,
                                     sp \in FieldSpecifiers, b \in FieldBlanks}

\* the placeholder as it is written in the template
FieldText(c) ==
    <<"{">> \o c.position \o c.junk
    \o (CASE c.kind = "plain"  -> <<>>
          [] c.kind = "custom" -> CUSTOM_SEPARATOR \o c.specifier
          [] c.kind = "spec"   -> <<":">> \o c.align \o c.sign \o c.alternate \o c.zero
                                  \o c.width \o c.precision \o c.type)
    \o c.blank \o <<"}">>

\* the format string of test_parse_format_string
TestTemplate ==
    <<"a", "a", "a", "a", " ", "}", "}", " ", "{", "{", "}", "}", "{", "}", " ", "{",
       "{", "{", "{", " ", "\"", " ", "{", ":", "#", ".", "*", "}", " ", "#", "{", "h",
       " ", ":", "<", "z", ">", "}", " ", "{", "e", " ", ":", "3", "x", "x", "x", "G",
       "x", "x", "x", "x", "x", "x", "x", " ", " ", "}", ",", " ", "{", ":", "?", "}",
       ",", " ", "{", " ", ":", "}", ",", " ", "{", ":", "?", "}", ",", " ", "{", "}",
       ",", ",", "{", "}", ",", " ", "{", "8", " ", ":", "<", ">", "}">>

\* result_new_format_string of test_parse_format_string
TestRewritten ==
    <<"a", "a", "a", "a", " ", "}", "}", " ", "{", "{", "}", "}", "{", "0", "}", " ",
       "{", "{", "{", "{", " ", "\"", " ", "{", "1", ":", "#", ".", "2", "$", "}", " ",
       "#", "{", "3", "}", " ", "{", "4", "}", ",", " ", "{", "5", ":", "?", "}", ",",
       " ", "{", "6", "}", ",", " ", "{", "7", ":", "?", "}", ",", " ", "{", "8", "}",
       ",", ",", "{", "9", "}", ",", " ", "{", "1", "0", "}">>

FieldTemplates == {FieldText(c) : c \in FieldCases} \cup {TestTemplate}

FieldArgLists == {<<>>, <<UnnamedArgument, UnnamedArgument, UnnamedArgument>>}

InitFields == \E t \in FieldTemplates : \E a \in FieldArgLists : Entered(t, a)

SpecFields == InitFields /\ [][Next]_vars

(***************************************************************************)
(* The functions of parse.rs on their own, as their tests call them:       *)
(*   let mut cursor = StrCursor::new(fmt); process_xxx(&mut cursor)        *)
(* fmt is the text, cursor the cursor, ret what the function returned.     *)
(***************************************************************************)
\* longest text, in characters, handed to a function of parse.rs
MaxCursorLen == 4

CursorAlphabet == {"<", "^", ">", "-", "#", "a", "0", ".", "*", "$", "_"}

CursorTexts == UNION {[1..n -> CursorAlphabet] : n \in 0..MaxCursorLen}

\* the ASCII rows of the tables of the tests of parse.rs
TestTexts ==
    {<<"0", "5", "s", "d", "k", "f", "h", "-">>,
     <<"_", "s", "d", "k", "f", "h", "-">>,
     <<"0", "5", "s", "d", "k", "f", "h", "$", "-">>,
     <<"0", "5", "$", "s", "d", "k", "f", "h", "-">>,
     <<"_", "s", "d", "k", "f", "h", "$", "-">>,
     <<"_", "s", "d", "k", "f", "h", "-", "$">>,
     <<".", "0", "5", "s", "d", "k", "f", "h", "$", "-">>,
     <<".", "0", "5", "$", "s", "d", "k", "f", "h", "-">>,
     <<".", "_", "s", "d", "k", "f", "h", "$", "-">>,
     <<".", "_", "s", "d", "k", "f", "h", "-", "$">>,
     <<"0", "1", "2", "3">>,
     <<"+", "0", "0", "0">>,
     <<"-", "0", "0", "0">>,
     <<"0", "0", "0", "0">>}

InitParse ==
    /\ fmt \in CursorTexts \cup TestTexts
    /\ cursor = fmt
    /\ pc = "parse"
    /\ ret = Running
    /\ old_cursor = <<>>
    /\ format_string = <<>>
    /\ arguments = <<>>
    /\ current_positional_index = 0
    /\ new_current_index = 0
    /\ new_format_string = <<>>
    /\ pieces = <<>>
    /\ tables = NoTables
    /\ next_piece = 1

\* what process_align returned: the characters of [Option<char>; 2]
Aligned(out) == [status |-> "ok", err |-> NoErr, out |-> out]

\* what process_precision returned, or the error it stopped with
PrecisionReturned(e, p) ==
    [status |-> IF e = NoErr THEN "ok" ELSE "err", err |-> e, precision |-> p]

CallProcessAlign ==
    /\ pc = "parse"
    /\ \E r \in {process_align(cursor)} :
           /\ cursor' = r.rest
           /\ ret' = Aligned(r.out)
    /\ pc' = "process_align"
    /\ UNCHANGED <<format_string, arguments, old_cursor, current_positional_index, new_current_index,
                   new_format_string, pieces, fmt, tables, next_piece>>

CallProcessPrecision ==
    /\ pc = "parse"
    /\ \E r \in {process_precision(cursor)} :
           /\ cursor' = r.rest
           /\ ret' = PrecisionReturned(r.err, r.precision)
    /\ pc' = "process_precision"
    /\ UNCHANGED <<format_string, arguments, old_cursor, current_positional_index, new_current_index,
                   new_format_string, pieces, fmt, tables, next_piece>>

\* what process_sign, process_alternate and process_sign_aware_zero_pad
\* returned: the character of Option<char>
FlagReturned(out) == [status |-> "ok", err |-> NoErr, out |-> out]

\* what process_width returned, or the error it stopped with
CountReturned(e, c) ==
    [status |-> IF e = NoErr THEN "ok" ELSE "err", err |-> e, count |-> c]

\* what parse_argument returned, or the error it stopped with
ArgumentReturned(e, a) ==
    [status |-> IF e = NoErr THEN "ok" ELSE "err", err |-> e, arg |-> a]

CallProcessSign ==
    /\ pc = "parse"
    /\ \E r \in {process_sign(cursor)} :
           /\ cursor' = r.rest
           /\ ret' = FlagReturned(r.out)
    /\ pc' = "process_sign"
    /\ UNCHANGED <<format_string, arguments, old_cursor, current_positional_index, new_current_index,
                   new_format_string, pieces, fmt, tables, next_piece>>

CallProcessAlternate ==
    /\ pc = "parse"
    /\ \E r \in {process_alternate(cursor)} :
           /\ cursor' = r.rest
           /\ ret' = FlagReturned(r.out)
    /\ pc' = "process_alternate"
    /\ UNCHANGED <<format_string, arguments, old_cursor, current_positional_index, new_current_index,
                   new_format_string, pieces, fmt, tables, next_piece>>

CallProcessSignAwareZeroPad ==
    /\ pc = "parse"
    /\ \E r \in {process_sign_aware_zero_pad(cursor)} :
           /\ cursor' = r.rest
           /\ ret' = FlagReturned(r.out)
    /\ pc' = "process_sign_aware_zero_pad"
    /\ UNCHANGED <<format_string, arguments, old_cursor, current_positional_index, new_current_index,
                   new_format_string, pieces, fmt, tables, next_piece>>

CallProcessWidth ==
    /\ pc = "parse"
    /\ \E r \in {process_width(cursor)} :
           /\ cursor' = r.rest
           /\ ret' = CountReturned(r.err, r.count)
    /\ pc' = "process_width"
    /\ UNCHANGED <<format_string, arguments, old_cursor, current_positional_index, new_current_index,
                   new_format_string, pieces, fmt, tables, next_piece>>

CallParseArgument ==
    /\ pc = "parse"
    /\ \E r \in {parse_argument(cursor)} :
           /\ cursor' = r.rest
           /\ ret' = ArgumentReturned(r.err, r.arg)
    /\ pc' = "parse_argument"
    /\ UNCHANGED <<format_string, arguments, old_cursor, current_positional_index, new_current_index,
                   new_format_string, pieces, fmt, tables, next_piece>>

NextParse ==
    \/ CallProcessAlign
    \/ CallProcessPrecision
    \/ CallProcessSign
    \/ CallProcessAlternate
    \/ CallProcessSignAwareZeroPad
    \/ CallProcessWidth
    \/ CallParseArgument

SpecParse == InitParse /\ [][NextParse]_vars

(***************************************************************************)
(* Vocabulary of the properties                                            *)
(***************************************************************************)
\* the interior of a placeholder, as process_fmt sees it
Inner(f) == trim_end(SubSeq(f, 2, Len(f) - 1))

\* the placeholder has the separator of a custom specifier
IsCustom(f) == find(Inner(f), CUSTOM_SEPARATOR) >= 0

\* the text in which the argument reference of the placeholder is looked for
RefText(f) == IF IsCustom(f) THEN TakeFirst(Inner(f), find(Inner(f), CUSTOM_SEPARATOR)) ELSE Inner(f)

\* the placeholder writes its position (an index or a name)
ExplicitPosition(f) == parse_argument(RefText(f)).arg # NoArg

\* the precision of a standard placeholder, as scanned after the flags and the width
PrecisionOf(f) ==
    LET a == parse_argument(Inner(f))
        w == process_width(process_sign_aware_zero_pad(process_alternate(process_sign(
                 process_align(Tail(a.rest)).rest).rest).rest).rest)
    IN  IF IsCustom(f) \/ a.rest = <<>> \/ Head(a.rest) # ":" THEN NoPrecision
        ELSE process_precision(w.rest).precision

\* the precision of the placeholder is `.*`
HasAsterisk(f) == PrecisionOf(f) = PrecisionAsterisk

\* a step of parse_format_string that parsed a placeholder into a piece
PlaceholderParsed == pc = "parse_format_string" /\ Len(pieces') = Len(pieces) + 1

\* the piece such a step appended
NewPiece == pieces'[Len(pieces')]

\* parse_format_string returned Ok
Parsed == pc \in {"process_pieces", "resolve", "done"} \/ (pc = "failed" /\ tables # NoTables)

Unnamed1 == <<UnnamedArgument>>

Tmpl_a_e_a == <<"{", "a", "}", "-", "{", "}", "-", "{", "a", "}">>
Tmpl_x_x == <<"{", "x", "}", " ", "{", "x", "}">>
Tmpl_e_e_e == <<"{", "}", " ", "{", "}", " ", "{", "}">>
Tmpl_1_e_0_e == <<"{", "1", "}", " ", "{", "}", " ", "{", "0", "}", " ", "{", "}">>
Tmpl_asterisk == <<"{", ":", ".", "*", "}">>
Tmpl_2_asterisk == <<"{", "2", ":", ".", "*", "}", "{", "}", "{", "}">>
Tmpl_a_asterisk == <<"{", "a", ":", ".", "*", "}">>

\* the slot indices of a slot list
Slots(ai) == [k \in 1..Len(ai) |-> ai[k].index]

\* the position references of a piece list
Positions(ps) == [k \in 1..Len(ps) |-> ps[k].arg_kind_position]

(***************************************************************************)
(* C1                                                                      *)
(***************************************************************************)
\* C1 as stated: for the template {a}-{}-{a} with one unnamed caller argument
\* the rewritten template returned by parse_format_string is {0}-{1}-{0}.
C1_Original ==
    (format_string = Tmpl_a_e_a /\ arguments = Unnamed1 /\ pc = "process_pieces")
        => new_format_string = <<"{", "0", "}", "-", "{", "1", "}", "-", "{", "0", "}">>

\* C1 amended: for the template {a}-{}-{a} with one unnamed caller argument
\* the rewritten template returned by parse_format_string is {0}-{1}-{2}: every
\* placeholder gets a fresh output index, also when it repeats a name.
C1_Rewritten ==
    (format_string = Tmpl_a_e_a /\ arguments = Unnamed1 /\ pc = "process_pieces")
        => new_format_string = <<"{", "0", "}", "-", "{", "1", "}", "-", "{", "2", "}">>

C1_Witness ==
    format_string = Tmpl_a_e_a /\ arguments = Unnamed1 /\ pc = "process_pieces" /\ Len(pieces) = 3

(***************************************************************************)
(* C3                                                                      *)
(***************************************************************************)
\* C3: asterisk precedes position.  A standard placeholder without explicit
\* position whose precision is `.*`, scanned with the implicit counter at c,
\* gets precision Positional(c) and position Positional(c+1) and leaves the
\* counter at c+2; the lone {:.*} with two caller arguments resolves its
\* position to argument 1 and its precision to argument 0.
C3_AsteriskPrecedesPosition ==
    /\ [][(PlaceholderParsed /\ ~ExplicitPosition(fmt') /\ HasAsterisk(fmt'))
            => /\ NewPiece.kind = "StdFmt"
               /\ NewPiece.arg_kind_precision = Positional(current_positional_index)
               /\ NewPiece.arg_kind_position = Positional(current_positional_index + 1)
               /\ current_positional_index' = current_positional_index + 2]_vars
    /\ []((format_string = Tmpl_asterisk /\ Len(arguments) = 2 /\ pc = "done")
            => Slots(ret.arg_indices) = <<1, 0>>)

C3_Witness ==
    /\ pc = "done"
    /\ Len(arguments) = 3
    /\ fmt = Tmpl_asterisk
    /\ current_positional_index = 3
    /\ Slots(ret.arg_indices) = <<0, 2, 1>>

(***************************************************************************)
(* C4                                                                      *)
(***************************************************************************)
\* C4: a standard placeholder with an explicit position (index or name) and
\* precision `.*`, scanned with the implicit counter at c, gets precision
\* Positional(c), keeps the position it wrote, and leaves the counter at c+1;
\* {2:.*} and {a:.*} at c = 0 give precision Positional(0).
C4_ExplicitPositionAsterisk ==
    /\ [][(PlaceholderParsed /\ ExplicitPosition(fmt') /\ HasAsterisk(fmt'))
            => /\ NewPiece.kind = "StdFmt"
               /\ NewPiece.arg_kind_precision = Positional(current_positional_index)
               /\ NewPiece.arg_kind_position = parse_argument(Inner(fmt')).arg
               /\ current_positional_index' = current_positional_index + 1]_vars
    /\ []((Parsed /\ format_string = Tmpl_2_asterisk)
            => /\ pieces[1].arg_kind_position = Positional(2)
               /\ pieces[1].arg_kind_precision = Positional(0))
    /\ []((Parsed /\ format_string = Tmpl_a_asterisk)
            => /\ pieces[1].arg_kind_position = Named(<<"a">>)
               /\ pieces[1].arg_kind_precision = Positional(0))

C4_Witness ==
    /\ pc = "done"
    /\ format_string = Tmpl_2_asterisk
    /\ Slots(ret.arg_indices) = <<2, 0, 1, 2>>

(***************************************************************************)
(* C2                                                                      *)
(***************************************************************************)
\* the references resolved so far, in scan order
RECURSIVE RefsOfPieces(_)
RefsOfPieces(ps) == IF ps = <<>> THEN <<>> ELSE piece_refs(Head(ps)) \o RefsOfPieces(Tail(ps))

RefsDone == RefsOfPieces(SubSeq(pieces, 1, next_piece - 1))

\* the names of the caller-supplied arguments
CallerNames == {arguments[i].name : i \in {j \in 1..Len(arguments) : arguments[j].named}}

\* the names of refs that no caller argument carries, each once, in the order
\* of their first occurrence
RECURSIVE FirstSeen(_, _)
FirstSeen(refs, acc) ==
    IF refs = <<>> THEN acc
    ELSE LET r == Head(refs)
             fresh == /\ r.kind = "Named"
                      /\ r.name \notin CallerNames
                      /\ \A k \in 1..Len(acc) : acc[k] # r.name
         IN  FirstSeen(Tail(refs), IF fresh THEN Append(acc, r.name) ELSE acc)

IndexOf(seq, x) == CHOOSE k \in 1..Len(seq) : seq[k] = x

\* C2: named-argument capture is idempotent.  While process_pieces resolves
\* the pieces, the captured-name list is the list of the referenced names that
\* no caller argument carries, each exactly once in first-occurrence order; the
\* k-th captured name has slot (number of caller arguments + k - 1) and every
\* reference to it (position, width or precision; standard or custom piece)
\* has that slot.  {x} {x} with no argument gives names [x] and slots [0, 0];
\* {a}-{}-{a} with one unnamed argument gives names [a] and slots [1, 0, 1].
C2_CaptureIdempotent ==
    /\ (pc \in {"resolve", "done"}) =>
          /\ Len(tables.arg_indices) = Len(RefsDone)
          /\ tables.new_args = FirstSeen(RefsDone, <<>>)
          /\ \A k \in 1..Len(RefsDone) :
                (RefsDone[k].kind = "Named" /\ RefsDone[k].name \notin CallerNames)
                    => tables.arg_indices[k].index
                         = Len(arguments) + IndexOf(tables.new_args, RefsDone[k].name) - 1
    /\ (pc = "done" /\ format_string = Tmpl_x_x /\ arguments = <<>>)
          => (ret.new_args = << <<"x">> >> /\ Slots(ret.arg_indices) = <<0, 0>>)
    /\ (pc = "done" /\ format_string = Tmpl_a_e_a /\ arguments = Unnamed1)
          => (ret.new_args = << <<"a">> >> /\ Slots(ret.arg_indices) = <<1, 0, 1>>)

\* a name captured by a width reference and referenced again by a custom piece
C2_Witness ==
    /\ pc = "done"
    /\ Len(ret.new_args) = 1
    /\ Len(arguments) = 1
    /\ Slots(ret.arg_indices) = <<0, 1, 1>>
    /\ pieces[1].arg_kind_width = Named(<<"x">>)
    /\ pieces[2].kind = "CustomFmt"

(***************************************************************************)
(* C5                                                                      *)
(***************************************************************************)
\* the number of implicit references a placeholder synthesizes
ImplicitRefs(f) == (IF ExplicitPosition(f) THEN 0 ELSE 1) + (IF HasAsterisk(f) THEN 1 ELSE 0)

\* the indices of the implicit references of the piece parsed from f
ImplicitIndices(f, piece) ==
    (IF ExplicitPosition(f) THEN {} ELSE {piece.arg_kind_position.index})
    \cup (IF HasAsterisk(f) THEN {piece.arg_kind_precision.index} ELSE {})

\* the references a placeholder writes keep the index or the name written
ExplicitKept(f, piece) ==
    /\ ExplicitPosition(f) => piece.arg_kind_position = parse_argument(RefText(f)).arg
    /\ (PrecisionOf(f).kind = "WithCount" /\ PrecisionOf(f).count.kind = "Argument")
          => piece.arg_kind_precision = PrecisionOf(f).count.arg

\* C5: implicit positional allocation is monotonic and left to right.  The
\* implicit counter starts at 0; a placeholder that synthesizes k implicit
\* references (no written position, `.*` precision) gives them the indices
\* c .. c+k-1 and moves the counter from c to c+k; written indices, names and
\* N$ / name$ references are kept and do not move it; no other step moves it.
\* {} {} {} gives positions 0,1,2 and {1} {} {0} {} gives 1,0,0,1.
C5_ImplicitAllocation ==
    /\ current_positional_index = 0
    /\ [][IF PlaceholderParsed
           THEN /\ current_positional_index' = current_positional_index + ImplicitRefs(fmt')
                /\ ImplicitIndices(fmt', NewPiece)
                     = current_positional_index..(current_positional_index' - 1)
                /\ ExplicitKept(fmt', NewPiece)
           ELSE pc' # "failed" => current_positional_index' = current_positional_index]_vars
    /\ []((Parsed /\ format_string = Tmpl_e_e_e)
            => Positions(pieces) = <<Positional(0), Positional(1), Positional(2)>>)
    /\ []((Parsed /\ format_string = Tmpl_1_e_0_e)
            => Positions(pieces) = <<Positional(1), Positional(0), Positional(0), Positional(1)>>)

C5_Witness ==
    /\ pc = "done"
    /\ format_string = Tmpl_1_e_0_e
    /\ current_positional_index = 2
    /\ Slots(ret.arg_indices) = <<1, 0, 0, 1>>

(***************************************************************************)
(* C6                                                                      *)
(***************************************************************************)
\* the caller arguments (zero-based) that no resolved reference names
Unreferenced ==
    {i \in 0..(Len(arguments) - 1) :
        \A k \in 1..Len(tables.arg_indices) : tables.arg_indices[k].index # i}

LowestUnreferenced == CHOOSE i \in Unreferenced : \A j \in Unreferenced : i <= j

\* the error that names the caller argument i (zero-based) as unused
NotUsed(i) ==
    IF arguments[i + 1].named
    THEN ErrName("named argument not used", arguments[i + 1].name)
    ELSE ErrIndex("positional argument not used", i)

Tmpl_e == <<"{", "}">>

\* C6: unused arguments are rejected.  Once every reference of every piece is
\* resolved, process_pieces succeeds if every caller argument is referenced and
\* otherwise fails with the error naming the lowest-index unreferenced
\* argument, by name if it has one and else by its zero-based index; {} with
\* two positional arguments fails naming argument 1.
C6_UnusedRejected ==
    /\ [][(pc = "resolve" /\ next_piece > Len(pieces))
            => IF Unreferenced = {} THEN pc' = "done"
               ELSE pc' = "failed" /\ ret' = Failed(NotUsed(LowestUnreferenced))]_vars
    /\ []((format_string = Tmpl_e /\ arguments = <<UnnamedArgument, UnnamedArgument>>
           /\ pc \in {"done", "failed"})
            => ret = Failed(ErrIndex("positional argument not used", 1)))

\* two arguments are unused and the first of them is reported
C6_Witness ==
    /\ pc = "failed"
    /\ Len(arguments) = 3
    /\ Slots(tables.arg_indices) = <<0>>
    /\ ret.err = ErrIndex("positional argument not used", 1)

(***************************************************************************)
(* C7                                                                      *)
(***************************************************************************)
\* an unnamed caller argument comes somewhere after a named one
BadOrder ==
    \E i, j \in 1..Len(arguments) : i < j /\ arguments[i].named /\ ~arguments[j].named

OrderError == Err("positional arguments cannot follow named arguments")

\* C7: ordering violation detection.  process_pieces fails with "positional
\* arguments cannot follow named arguments" exactly when an unnamed caller
\* argument comes after a named one, whatever the pieces are; with all unnamed
\* arguments before all named ones the error is never raised.
C7_OrderingViolation ==
    /\ [][(pc = "process_pieces") => (BadOrder <=> (pc' = "failed" /\ ret' = Failed(OrderError)))]_vars
    /\ [](ret.err = OrderError => BadOrder)

\* the error is raised although a piece holds an index no argument has
C7_Witness ==
    /\ pc = "failed"
    /\ ret = Failed(OrderError)
    /\ arguments = <<NamedArgument(<<"a">>), UnnamedArgument>>
    /\ Len(pieces) = 3
    /\ pieces[1].arg_kind_position = Positional(2)

(***************************************************************************)
(* C8                                                                      *)
(***************************************************************************)
\* the (one-based) arguments whose name an earlier argument carries
Repeats ==
    {j \in 1..Len(arguments) :
        /\ arguments[j].named
        /\ \E i \in 1..(j - 1) : arguments[i].named /\ arguments[i].name = arguments[j].name}

FirstRepeat == CHOOSE j \in Repeats : \A k \in Repeats : j <= k

DuplicateError == ErrName("duplicate argument named", arguments[FirstRepeat].name)

\* C8 as stated: process_pieces fails with "duplicate argument named <name>"
\* whenever two caller arguments carry the same name, whatever the pieces are,
\* and the name is the first one whose second occurrence is met.
C8_Original ==
    [][(pc = "process_pieces" /\ Repeats # {})
        => (pc' = "failed" /\ ret' = Failed(DuplicateError))]_vars

\* C8 amended: process_pieces fails with "duplicate argument named <name>"
\* whenever two caller arguments carry the same name and no unnamed argument
\* follows a named one (the ordering check comes first), whatever the pieces
\* are, and the name is the first one whose second occurrence is met; without
\* a repeated name the error is not raised.
C8_DuplicateNamed ==
    [][(pc = "process_pieces" /\ ~BadOrder)
        => IF Repeats # {} THEN pc' = "failed" /\ ret' = Failed(DuplicateError)
           ELSE ret'.err.msg # "duplicate argument named"]_vars

\* a and x are both repeated; x is the first whose second occurrence is met,
\* and no piece references it
C8_Witness ==
    /\ pc = "failed"
    /\ Len(arguments) = 4
    /\ ret = Failed(ErrName("duplicate argument named", <<"x">>))
    /\ Len(pieces) = 1
    /\ pieces[1].arg_kind_position = Named(<<"a">>)

(***************************************************************************)
(* C9                                                                      *)
(***************************************************************************)
\* the references of the piece process_pieces is about to resolve
NextRefs == piece_refs(pieces[next_piece])

\* those of them that are positional indices no caller argument has
OutOfRange ==
    {k \in 1..Len(NextRefs) :
        NextRefs[k].kind = "Positional" /\ NextRefs[k].index >= Len(arguments)}

FirstOutOfRange == CHOOSE k \in OutOfRange : \A h \in OutOfRange : k <= h

\* C9: a Positional(i) reference (position, width or precision, written or
\* implicit) resolves to slot i exactly when i is smaller than the number of
\* caller arguments; otherwise process_pieces fails with "invalid positional
\* argument index: i".  The slots of captured names do not count.
C9_PositionalBound ==
    [][(pc = "resolve" /\ next_piece <= Len(pieces))
        => IF OutOfRange = {}
           THEN /\ pc' = "resolve"
                /\ Len(tables'.arg_indices) = Len(tables.arg_indices) + Len(NextRefs)
                /\ \A k \in 1..Len(NextRefs) :
                      NextRefs[k].kind = "Positional"
                          => tables'.arg_indices[Len(tables.arg_indices) + k].index = NextRefs[k].index
           ELSE /\ pc' = "failed"
                /\ ret' = Failed(ErrIndex("invalid positional argument index",
                                          NextRefs[FirstOutOfRange].index))]_vars

\* the index rejected is the slot of a name captured earlier in the scan
C9_Witness ==
    /\ pc = "failed"
    /\ ret.err.msg = "invalid positional argument index"
    /\ Len(tables.new_args) >= 1
    /\ ret.err.index >= Len(arguments)
    /\ ret.err.index < Len(arguments) + Len(tables.new_args)

(***************************************************************************)
(* C10                                                                     *)
(***************************************************************************)
\* the specifier of a custom placeholder: the text after the first separator
Specifier(f) == DropFirst(Inner(f), find(Inner(f), CUSTOM_SEPARATOR) + Len(CUSTOM_SEPARATOR))

\* the specifier is wrapped in a pair of angle brackets
Bracketed(t) == Len(t) >= 2 /\ t[1] = "<" /\ t[Len(t)] = ">"

\* the text between the brackets
BracketInterior(t) == SubSeq(t, 2, Len(t) - 1)

\* str::trim
RECURSIVE trim_start(_)
trim_start(s) == IF s # <<>> /\ is_whitespace(s[1]) THEN trim_start(Tail(s)) ELSE s

trim(s) == trim_start(trim_end(s))

Tmpl_custom_x == <<"{", " ", ":", "x", "}", "{", " ", ":", "<", "x", ">", "}">>

\* C10 as stated: a placeholder with the separator becomes a custom piece whose
\* spec is Runtime with the trimmed interior of the brackets when the specifier
\* is wrapped in angle brackets, and CompileTime with the specifier otherwise.
C10_Original ==
    [][(PlaceholderParsed /\ IsCustom(fmt'))
        => /\ NewPiece.kind = "CustomFmt"
           /\ NewPiece.spec = IF Bracketed(Specifier(fmt'))
                              THEN Runtime(trim(BracketInterior(Specifier(fmt'))))
                              ELSE CompileTime(Specifier(fmt'))]_vars

\* C10 amended: a placeholder with the separator becomes a custom piece whose
\* spec is Runtime with the interior of the brackets, character for character
\* (not trimmed), when the specifier is wrapped in angle brackets, and
\* CompileTime with the specifier otherwise.  Interior ` :x` gives CompileTime
\* with text x and interior ` :<x>` gives Runtime with text x.
C10_Classification ==
    /\ [][(PlaceholderParsed /\ IsCustom(fmt'))
            => /\ NewPiece.kind = "CustomFmt"
               /\ NewPiece.spec = IF Bracketed(Specifier(fmt'))
                                  THEN Runtime(BracketInterior(Specifier(fmt')))
                                  ELSE CompileTime(Specifier(fmt'))]_vars
    /\ []((Parsed /\ format_string = Tmpl_custom_x)
            => /\ pieces[1] = CustomFmt(Positional(0), CompileTime(<<"x">>))
               /\ pieces[2] = CustomFmt(Positional(1), Runtime(<<"x">>)))

\* a bracketed specifier whose interior starts with a space, and a specifier
\* that is the single character <
C10_Witness ==
    /\ Parsed
    /\ Len(pieces) = 2
    /\ pieces[1] = CustomFmt(Named(<<"x">>), Runtime(<<" ", "s">>))
    /\ pieces[2] = CustomFmt(Positional(0), CompileTime(<<"<">>))

(***************************************************************************)
(* The whole macro: parse_format_string, process_pieces, compute_output    *)
(***************************************************************************)
\* the root macros of lib.rs, as token trees
RootMacros ==
    { <<":", ":", "core", ":", ":", "format_args", "!">>,
      <<":", ":", "std", ":", ":", "format", "!">>,
      <<":", ":", "std", ":", ":", "println", "!">>,
      <<":", ":", "core", ":", ":", "writeln", "!">> }

\* first_arg of ParsedInput: none, or the destination of write! / writeln!
FirstArgs == {<<>>, <<"f">>}

\* the token stream the macro expands to
Emitted(out) == [status |-> "emitted", output |-> out]

\* compute_output on what the two functions returned
ComputeOutput ==
    /\ pc = "done"
    /\ \E root_macro \in RootMacros : \E first_arg \in FirstArgs :
           ret' = Emitted(compute_output(root_macro, first_arg, arguments, ret.new_format_string,
                                         ret.arg_indices, ret.new_args))
    /\ pc' = "emitted"
    /\ UNCHANGED <<format_string, arguments, old_cursor, cursor, current_positional_index, new_current_index,
                   new_format_string, pieces, fmt, tables, next_piece>>

NextFmt ==
    \/ Next
    \/ ComputeOutput

SpecFmt == Init /\ [][NextFmt]_vars

(***************************************************************************)
(* C11                                                                     *)
(***************************************************************************)
\* the width or precision part is an argument reference (it ends with `$`)
IsRef(part) == part # <<>> /\ part[Len(part)] = "$"

\* the precision part takes an output index: an argument reference or `.*`
PrecisionTakesIndex(part) == IsRef(part) \/ part = <<".", "*">>

\* what the claim says a lone placeholder written from the parts c is
\* rewritten to
RewrittenField(c) ==
    <<"{", "0">>
    \o (IF c.kind = "spec"
        THEN <<":">> \o c.align \o c.sign \o c.alternate \o c.zero
             \o (IF IsRef(c.width) THEN <<"1", "$">> ELSE c.width)
             \o (IF PrecisionTakesIndex(c.precision)
                 THEN <<".">> \o (IF IsRef(c.width) THEN <<"2">> ELSE <<"1">>) \o <<"$">>
                 ELSE c.precision)
             \o c.type
        ELSE <<>>)
    \o <<"}">>

\* the placeholders of the population with nothing unparsed after the
\* position, each with its rewriting
FieldPairs == {<<FieldText(c), RewrittenField(c)>> : c \in {d \in FieldCases : d.junk = <<>>}}

\* no placeholder of the population can be written from two different lists
\* of parts that would be rewritten differently
FieldPairsFunctional == Cardinality({pr[1] : pr \in FieldPairs}) = Cardinality(FieldPairs)

\* C11: the rewritten placeholder of a standard field is `{` + output index,
\* then, if the interior had a `:`, a `:` followed by the fill/align, sign, `#`
\* and `0` flags as scanned, a literal width copied, an argument-reference
\* width replaced by <outindex>$, a literal precision copied as .digits, an
\* argument-reference or `*` precision replaced by .<outindex>$, the type text
\* copied, then `}`, with the trailing whitespace of the interior dropped; a
\* custom field is rewritten to the bare {<outindex>}.  The template of
\* test_parse_format_string is rewritten to result_new_format_string.
C11_RewrittenPlaceholder ==
    /\ FieldPairsFunctional
    /\ Parsed =>
          IF format_string = TestTemplate THEN new_format_string = TestRewritten
          ELSE <<format_string, new_format_string>> \in FieldPairs

\* {a: ^+#0w$.*x? } has been rewritten to {0: ^+#01$.2$x?}
C11_Witness ==
    /\ Parsed
    /\ format_string = <<"{", "a", ":", " ", "^", "+", "#", "0", "w", "$", ".", "*", "x", "?", " ", "}">>
    /\ new_format_string = <<"{", "0", ":", " ", "^", "+", "#", "0", "1", "$", ".", "2", "$", "x", "?", "}">>

(***************************************************************************)
(* C12                                                                     *)
(***************************************************************************)
\* every `{` of the template is one of a `{{` pair, reading left to right
RECURSIVE OnlyEscapedBraces(_)
OnlyEscapedBraces(t) ==
    IF t = <<>> THEN TRUE
    ELSE IF Head(t) = "{" THEN Len(t) >= 2 /\ t[2] = "{" /\ OnlyEscapedBraces(DropFirst(t, 2))
    ELSE OnlyEscapedBraces(Tail(t))

\* C12: round trip of literals.  For a template with no `{` other than in
\* `{{` pairs (literal text, `{{`, `}}`) parse_format_string does not fail, it
\* returns the template unchanged, character for character, with an empty
\* piece list, and neither counter leaves 0.
C12_LiteralRoundTrip ==
    OnlyEscapedBraces(format_string) =>
        /\ pieces = <<>>
        /\ current_positional_index = 0
        /\ new_current_index = 0
        /\ pc = "parse_format_string" => new_format_string \o cursor = format_string
        /\ pc # "parse_format_string" => new_format_string = format_string
        /\ pc = "failed" => ret.err.msg = "positional argument not used"
        /\ pc = "done" => ret.new_format_string = format_string

\* a{{}} has come back unchanged
C12_Witness ==
    /\ format_string = <<"a", "{", "{", "}", "}">>
    /\ pc = "done"
    /\ ret.new_format_string = format_string

(***************************************************************************)
(* C13                                                                     *)
(***************************************************************************)
\* the entries the claim expects for one piece: position, width, precision
\* for a standard piece, none with a spec; one entry with the spec for a
\* custom piece
ExpectedOfPiece(piece) ==
    IF piece.kind = "CustomFmt"
    THEN <<[ref |-> piece.arg_kind_position, spec |-> piece.spec]>>
    ELSE <<[ref |-> piece.arg_kind_position, spec |-> NoSpec]>>
         \o (IF piece.arg_kind_width = NoArg THEN <<>>
             ELSE <<[ref |-> piece.arg_kind_width, spec |-> NoSpec]>>)
         \o (IF piece.arg_kind_precision = NoArg THEN <<>>
             ELSE <<[ref |-> piece.arg_kind_precision, spec |-> NoSpec]>>)

RECURSIVE ExpectedEntries(_)
ExpectedEntries(ps) ==
    IF ps = <<>> THEN <<>> ELSE ExpectedOfPiece(Head(ps)) \o ExpectedEntries(Tail(ps))

\* the slot of a reference once the invocation has succeeded
SlotOf(ref) ==
    IF ref.kind = "Positional" THEN ref.index
    ELSE IF ref.name \in CallerNames
    THEN (CHOOSE i \in 1..Len(arguments) : arguments[i].named /\ arguments[i].name = ref.name) - 1
    ELSE Len(arguments) + IndexOf(ret.new_args, ref.name) - 1

Tmpl_0_0 == <<"{", "0", "}", " ", "{", "0", "}">>

\* C13: one slot-list entry per reference, in scan order.  On success the
\* slot list has exactly one entry per argument reference, in piece order and
\* within a standard piece in the order position, width, precision; the
\* entries of a standard piece carry no spec and a custom piece gives one
\* entry carrying its spec.  Its length is the final output-index counter of
\* parse_format_string.  {0} {0} with one argument succeeds with slots [0, 0].
C13_OneEntryPerReference ==
    /\ pc = "done" =>
          /\ Len(ret.arg_indices) = Len(ExpectedEntries(pieces))
          /\ \A k \in 1..Len(ret.arg_indices) :
                ret.arg_indices[k] = Entry(SlotOf(ExpectedEntries(pieces)[k].ref),
                                           ExpectedEntries(pieces)[k].spec)
          /\ Len(ret.arg_indices) = new_current_index
    /\ (format_string = Tmpl_0_0 /\ arguments = Unnamed1 /\ pc \notin {"parse_format_string", "process_pieces", "resolve"})
          => (pc = "done" /\ Slots(ret.arg_indices) = <<0, 0>>)

\* {:1$.a$}{ :s} with two unnamed arguments: position, width, captured
\* precision, then the custom piece with its spec
C13_Witness ==
    /\ pc = "done"
    /\ format_string = <<"{", ":", "1", "$", ".", "a", "$", "}", "{", " ", ":", "s", "}">>
    /\ Slots(ret.arg_indices) = <<0, 1, 2, 1>>
    /\ ret.arg_indices[4].spec = CompileTime(<<"s">>)

(***************************************************************************)
(* C14                                                                     *)
(***************************************************************************)
\* what the caller holds is nothing, a single error and nothing else, or the
\* complete triple
C14_ReturnedValue ==
    CASE ret.status = "running" -> pc \notin {"done", "failed"}
      [] ret.status = "err" ->
            /\ pc = "failed"
            /\ ret.err # NoErr
            /\ ret.new_format_string = <<>>
            /\ ret.arg_indices = <<>>
            /\ ret.new_args = <<>>
      [] ret.status = "ok" ->
            /\ pc = "done"
            /\ ret.err = NoErr
            /\ cursor = <<>>
            /\ ret.new_format_string = new_format_string
            /\ Len(ret.arg_indices) = Len(ExpectedEntries(pieces))
            /\ ret.new_args = tables.new_args

SlotExpr(i) ==
    IF i < Len(arguments) THEN ExprOf(i) ELSE IdentOf(tables.new_args[i - Len(arguments) + 1], "span")

\* number of slots: caller arguments, then captured identifiers
SlotCount == Len(arguments) + Len(tables.new_args)

\* how often the expression e is written in the emitted code
Occurrences(out, e) ==
    Cardinality({i \in 1..Len(out.scrutinee) : out.scrutinee[i] = Borrow(e)})
    + Cardinality({k \in 1..Len(out.call.fmt_args) : out.call.fmt_args[k].arg = Borrow(e)})

\* the formatter constructor the claim expects for a spec
FormatterOf(spec) ==
    IF spec = NoSpec THEN "none"
    ELSE IF spec.kind = "CompileTime" THEN "custom_formatter!"
    ELSE "runtime::CustomFormatter::new"

RECURSIVE IndicesOf(_)
IndicesOf(t) ==
    IF t = <<>> THEN <<>>
    ELSE IF Len(t) >= 2 /\ t[1] = "{" /\ t[2] = "{" THEN IndicesOf(DropFirst(t, 2))
    ELSE IF t[1] = "{"
    THEN LET run == read_while(Tail(t), "digit")
         IN  (IF run.out = <<>> THEN <<>> ELSE <<ParseUsize(run.out)>>) \o IndicesOf(run.rest)
    ELSE IF is_ascii_digit(t[1])
    THEN LET run == read_while(t, "digit")
         IN  (IF run.rest # <<>> /\ run.rest[1] = "$" THEN <<ParseUsize(run.out)>> ELSE <<>>)
             \o IndicesOf(run.rest)
    ELSE IndicesOf(Tail(t))

\* the output indices a piece consumes: 1, plus 1 for a width that is an
\* argument reference, plus 1 for a precision that is an argument reference
\* or `*`; a custom piece consumes 1
Consumed(piece) ==
    IF piece.kind = "CustomFmt" THEN 1
    ELSE 1 + (IF piece.arg_kind_width # NoArg THEN 1 ELSE 0)
           + (IF piece.arg_kind_precision # NoArg THEN 1 ELSE 0)

\* C16: the output index counter starts at 0 and a placeholder that is parsed
\* consumes consecutive values: a standard one 1 + [width is an argument
\* reference] + [precision is an argument reference or `*`], a custom one 1;
\* no other step moves the counter; the numeric indices of the rewritten
\* template, read left to right, are 0,1,2,.. up to the counter, without gap
\* or repetition, whatever the template wrote.  The template of
\* test_parse_format_string, with ten placeholders and one `.*`, ends at 11.
C16_OutputIndices ==
    /\ new_current_index = 0
    /\ [][IF PlaceholderParsed
           THEN /\ new_current_index' = new_current_index + Consumed(NewPiece)
                /\ IndicesOf(new_format_string')
                     = [k \in 1..new_current_index' |-> k - 1]
           ELSE pc' # "failed" => new_current_index' = new_current_index]_vars
    /\ [](Parsed => IndicesOf(new_format_string) = [k \in 1..new_current_index |-> k - 1])
    /\ []((Parsed /\ format_string = TestTemplate) => new_current_index = 11)

\* {a:3.d$} keeps its literal width and has consumed two indices
C16_Witness ==
    /\ Parsed
    /\ format_string = <<"{", "a", ":", "3", ".", "d", "$", "}">>
    /\ new_format_string = <<"{", "0", ":", "3", ".", "1", "$", "}">>
    /\ new_current_index = 2

(***************************************************************************)
(* C17                                                                     *)
(***************************************************************************)
\* the offset of the first c in s, or 0
FirstAt(s, c) ==
    IF \E i \in 1..Len(s) : s[i] = c
    THEN CHOOSE i \in 1..Len(s) : s[i] = c /\ \A j \in 1..(i - 1) : s[j] # c
    ELSE 0

\* the placeholder that opens at the first `{` of s: through the next `}`,
\* or to the end of s when there is none
SpanOf(s) ==
    LET opened == DropFirst(s, FirstAt(s, "{") - 1)
    IN  IF FirstAt(opened, "}") = 0 THEN opened ELSE TakeFirst(opened, FirstAt(opened, "}"))

\* the placeholder has no closing brace
Unclosed(f) == Len(f) < 2 \/ f[Len(f)] # "}"

\* what stands between the braces of a closed placeholder
Between(f) == SubSeq(f, 2, Len(f) - 1)

\* the part of s before its first `:`
BeforeColon(s) == IF FirstAt(s, ":") = 0 THEN s ELSE TakeFirst(s, FirstAt(s, ":") - 1)

HasOpenBrace(s) == \E i \in 1..Len(s) : s[i] = "{"

\* s starts with an underscore that no identifier character follows
SingleUnderscore(s) == Len(s) >= 1 /\ s[1] = "_" /\ (Len(s) = 1 \/ ~is_xid_continue(s[2]))

\* a step of parse_format_string that handed a placeholder to process_fmt
PlaceholderStep ==
    pc = "parse_format_string" /\ (Len(pieces') = Len(pieces) + 1 \/ pc' = "failed")

FailsWith(m) == pc' = "failed" /\ ret' = Failed(Err(m))

Tmpl_brace_in_type == <<"{", ":", "{", "}">>

AfterReference(f) == parse_argument(RefText(f))

\* something unparsed follows the optional reference of the placeholder f
Unparsed(f) ==
    /\ AfterReference(f).err = NoErr
    /\ AfterReference(f).rest # <<>>
    /\ IsCustom(f) \/ Head(AfterReference(f).rest) # ":"

\* the reference of f is followed by what may follow it, and by no format spec
Bare(f) ==
    /\ ~Unclosed(f)
    /\ AfterReference(f).err = NoErr
    /\ AfterReference(f).rest = <<>>

RunLen(t, P(_)) ==
    CHOOSE n \in 0..Len(t) :
        /\ \A i \in 1..n : P(t[i])
        /\ n = Len(t) \/ ~P(t[n + 1])

\* t starts with an underscore that no identifier character follows
LoneUnderscore(t) ==
    t # <<>> /\ t[1] = "_" /\ RunLen(Tail(t), is_xid_continue) = 0

\* the length of the argument reference t starts with: a run of digits, or
\* an identifier; 0 when there is none
RefLen(t) ==
    IF RunLen(t, is_ascii_digit) > 0 THEN RunLen(t, is_ascii_digit)
    ELSE IF t # <<>> /\ (is_xid_start(t[1]) \/ t[1] = "_") /\ ~LoneUnderscore(t)
    THEN 1 + RunLen(Tail(t), is_xid_continue)
    ELSE 0

\* the argument that reference names
RefArg(t) ==
    IF RunLen(t, is_ascii_digit) > 0 THEN Positional(ParseUsize(TakeFirst(t, RefLen(t))))
    ELSE Named(TakeFirst(t, RefLen(t)))

\* t starts with an argument reference immediately followed by `$`
RefDollar(t) == RefLen(t) > 0 /\ Len(t) > RefLen(t) /\ t[RefLen(t) + 1] = "$"

\* what the claim says process_precision does with the text f: the result
\* and the cursor afterwards
PrecisionOutcome(f) ==
    IF f = <<>> \/ f[1] # "."
    THEN [ret |-> PrecisionReturned(NoErr, NoPrecision), cursor |-> f]
    ELSE IF Len(f) >= 2 /\ f[2] = "*"
    THEN [ret |-> PrecisionReturned(NoErr, PrecisionAsterisk), cursor |-> DropFirst(f, 2)]
    ELSE IF RefDollar(Tail(f))
    THEN [ret |-> PrecisionReturned(NoErr, PrecisionWithCount(CountArgument(RefArg(Tail(f))))),
          cursor |-> DropFirst(f, 2 + RefLen(Tail(f)))]
    ELSE IF RunLen(Tail(f), is_ascii_digit) > 0
    THEN [ret |-> PrecisionReturned(NoErr, PrecisionWithCount(CountInteger(
                      TakeFirst(Tail(f), RunLen(Tail(f), is_ascii_digit))))),
          cursor |-> DropFirst(f, 1 + RunLen(Tail(f), is_ascii_digit))]
    ELSE [ret |-> PrecisionReturned(Err("invalid count in format string"), NoPrecision),
          cursor |-> <<>>]

AlignMarkers == {"<", "^", ">"}

\* C20: if a first character exists and the second character is one of
\* `<`, `^`, `>`, process_align consumes both and returns them as fill and
\* alignment, whatever the first is; otherwise, if the first character is one
\* of `<`, `^`, `>`, only it is consumed and returned; otherwise nothing is
\* consumed and the cursor is exactly where it was.
C20_AlignLookahead ==
    pc = "process_align" =>
        IF Len(fmt) >= 2 /\ fmt[2] \in AlignMarkers
        THEN ret = Aligned(<<fmt[1], fmt[2]>>) /\ cursor = SubSeq(fmt, 3, Len(fmt))
        ELSE IF Len(fmt) >= 1 /\ fmt[1] \in AlignMarkers
        THEN ret = Aligned(<<fmt[1]>>) /\ cursor = SubSeq(fmt, 2, Len(fmt))
        ELSE ret = Aligned(<<>>) /\ cursor = fmt

\* process_align has taken `-` as the fill of -^-
C20_Witness ==
    /\ pc = "process_align"
    /\ fmt = <<"-", "^", "-">>
    /\ ret = Aligned(<<"-", "^">>)
    /\ cursor = <<"-">>

(***************************************************************************)
(* C21                                                                     *)
(***************************************************************************)
\* the text starts with a `0` that no `$` follows
ZeroFlagAhead(f) == Len(f) >= 1 /\ f[1] = "0" /\ ~(Len(f) >= 2 /\ f[2] = "$")

\* C21: process_sign_aware_zero_pad consumes one `0` if and only if the next
\* character is `0` and the character after it is not `$`; in every other
\* case it returns none and leaves the cursor unmoved, so the `0` of a width
\* reference `0$` is left for the width parser.
C21_ZeroPad ==
    pc = "process_sign_aware_zero_pad" =>
        IF ZeroFlagAhead(fmt)
        THEN ret = FlagReturned(<<"0">>) /\ cursor = Tail(fmt)
        ELSE ret = FlagReturned(<<>>) /\ cursor = fmt

\* the `0` of 0$ has been left where it was
C21_Witness ==
    /\ pc = "process_sign_aware_zero_pad"
    /\ fmt = <<"0", "$">>
    /\ ret = FlagReturned(<<>>)
    /\ cursor = <<"0", "$">>

(***************************************************************************)
(* C22                                                                     *)
(***************************************************************************)
\* what the claim says process_count does with the text f: the result and
\* the cursor afterwards
CountOutcome(f) ==
    IF RefDollar(f)
    THEN [ret |-> CountReturned(NoErr, CountArgument(RefArg(f))),
          cursor |-> DropFirst(f, RefLen(f) + 1)]
    ELSE IF RunLen(f, is_ascii_digit) > 0
    THEN [ret |-> CountReturned(NoErr, CountInteger(TakeFirst(f, RunLen(f, is_ascii_digit)))),
          cursor |-> DropFirst(f, RunLen(f, is_ascii_digit))]
    ELSE [ret |-> CountReturned(NoErr, NoCount), cursor |-> f]

MaxSpecLen == 4

\* blank, colon, the two brackets, a letter and a non-ASCII letter
SpecAlphabet == {" ", ":", "<", ">", "x", "é"}

SpecTexts == UNION {[1..n -> SpecAlphabet] : n \in 0..MaxSpecLen}

\* { reference  :specifier blank }, after an escaped brace or after nothing
CustomTemplates ==
    {lead \o <<"{">> \o ref \o CUSTOM_SEPARATOR \o text \o blank \o <<"}">> :
        lead \in {<<>>, <<"{", "{">>}, ref \in {<<>>, <<"a">>}, text \in SpecTexts,
        blank \in {<<>>, <<" ">>}}

InitCustom == \E t \in CustomTemplates : \E a \in ScanArgLists : Entered(t, a)

SpecCustom == InitCustom /\ [][Next]_vars

(***************************************************************************)
(* C24                                                                     *)
(***************************************************************************)
\* the offset of the first ` :` in the placeholder f
SeparatorAt(f) ==
    CHOOSE i \in 1..Len(f) :
        /\ i < Len(f) /\ f[i] = " " /\ f[i + 1] = ":"
        /\ \A j \in 1..(i - 1) : ~(f[j] = " " /\ f[j + 1] = ":")

\* the number of characters of t up to its last one that is not whitespace
TrimmedLen(t) ==
    IF \A i \in 1..Len(t) : is_whitespace(t[i]) THEN 0
    ELSE CHOOSE n \in 1..Len(t) :
             ~is_whitespace(t[n]) /\ \A i \in (n + 1)..Len(t) : is_whitespace(t[i])

\* everything after the first ` :` of the closed placeholder f, up to the
\* whitespace that ends its interior
Verbatim(f) ==
    SubSeq(f, SeparatorAt(f) + 2, 1 + TrimmedLen(SubSeq(f, 2, Len(f) - 1)))

Tmpl_blank_bracketed == <<"{", " ", ":", " ", "<", "x", ">", "}">>
Tmpl_bracket_open_end == <<"{", " ", ":", "<", "x", ">", "<", "}">>
Tmpl_lone_bracket == <<"{", " ", ":", "<", "}">>
Tmpl_later_separators == <<"{", " ", ":", " ", ":", " ", ":", " ", "}">>
Tmpl_non_ascii == <<"{", " ", ":", " ", "é", "}">>
Tmpl_bracketed_blank == <<"{", " ", ":", "<", "x", ">", " ", "}">>

\* C24: a CompileTime spec keeps its text verbatim: the spec text is
\* everything after the first ` :` of the interior, with only the trailing
\* whitespace of the placeholder removed; leading whitespace, later ` :`
\* occurrences, non-ASCII characters and text that is not bracketed at both
\* ends are kept unchanged and classified CompileTime, and no character of
\* the spec is rejected.  Whitespace between a closing `>` and `}` does not
\* prevent the Runtime classification.
C24_CompileTimeVerbatim ==
    /\ [][(PlaceholderStep /\ format_string \in CustomTemplates)
            => /\ pc' # "failed"
               /\ Len(pieces') = Len(pieces) + 1
               /\ NewPiece.kind = "CustomFmt"
               /\ IF Bracketed(Verbatim(fmt'))
                  THEN NewPiece.spec.kind = "Runtime"
                  ELSE NewPiece.spec = CompileTime(Verbatim(fmt'))]_vars
    /\ []((Parsed /\ format_string = Tmpl_blank_bracketed)
            => pieces[1].spec = CompileTime(<<" ", "<", "x", ">">>))
    /\ []((Parsed /\ format_string = Tmpl_bracket_open_end)
            => pieces[1].spec = CompileTime(<<"<", "x", ">", "<">>))
    /\ []((Parsed /\ format_string = Tmpl_lone_bracket)
            => pieces[1].spec = CompileTime(<<"<">>))
    /\ []((Parsed /\ format_string = Tmpl_later_separators)
            => pieces[1].spec = CompileTime(<<" ", ":", " ", ":">>))
    /\ []((Parsed /\ format_string = Tmpl_non_ascii)
            => pieces[1].spec = CompileTime(<<" ", "é">>))
    /\ []((Parsed /\ format_string = Tmpl_bracketed_blank)
            => pieces[1].spec = Runtime(<<"x">>))

\* {a :<x><} has been parsed into a CompileTime spec with all four characters
C24_Witness ==
    /\ Parsed
    /\ format_string = <<"{", "a", " ", ":", "<", "x", ">", "<", "}">>
    /\ Len(pieces) = 1
    /\ pieces[1] = CustomFmt(Named(<<"a">>), CompileTime(<<"<", "x", ">", "<">>))

(***************************************************************************)
(* StrCursor on its own: a cursor over an input, read by any sequence of   *)
(* calls, with `let old_cursor = cursor.clone()` and `*cursor = old_cursor`*)
(* in between.  fmt is the input, cursor is cursor.remaining(), ret the    *)
(* value of the last call.                                                 *)
(***************************************************************************)
\* longest input, in characters, of a cursor
MaxInputLen == 4

InputAlphabet == {"{", "}", "a", "0"}

CursorInputs == UNION {[1..n -> InputAlphabet] : n \in 0..MaxInputLen}

\* the predicates the callers hand to read_until and read_until_included
UntilClasses == {"digit", "xid_continue", "open_brace", "close_brace"}

\* |x| !f(x)
Negated(class) ==
    CASE class = "digit"        -> "not_digit"
      [] class = "xid_continue" -> "not_xid_continue"
      [] class = "open_brace"   -> "not_open_brace"
      [] class = "close_brace"  -> "not_close_brace"

\* the predicates handed to read_while, those of read_until included
WhileClasses == UntilClasses \cup {Negated(class) : class \in UntilClasses}

\* what a call of the cursor returned, with the predicate it was given
CursorReturned(class, out) == [status |-> "ok", err |-> NoErr, pred |-> class, out |-> out]

CursorCalls == {"new", "next", "read_while", "read_until", "read_until_included", "clone", "restore"}

\* StrCursor::new(input)
InitCursor ==
    /\ fmt \in CursorInputs
    /\ cursor = fmt
    /\ pc = "new"
    /\ ret = CursorReturned("", <<>>)
    /\ old_cursor = <<>>
    /\ format_string = <<>>
    /\ arguments = <<>>
    /\ current_positional_index = 0
    /\ new_current_index = 0
    /\ new_format_string = <<>>
    /\ pieces = <<>>
    /\ tables = NoTables
    /\ next_piece = 1

CursorNext ==
    /\ pc \in CursorCalls
    /\ \E r \in {next(cursor)} :
           /\ cursor' = r.rest
           /\ ret' = CursorReturned("", r.out)
    /\ pc' = "next"
    /\ UNCHANGED <<format_string, arguments, old_cursor, current_positional_index, new_current_index,
                   new_format_string, pieces, fmt, tables, next_piece>>

CursorReadWhile ==
    /\ pc \in CursorCalls
    /\ \E class \in WhileClasses : \E r \in {read_while(cursor, class)} :
           /\ cursor' = r.rest
           /\ ret' = CursorReturned(class, r.out)
    /\ pc' = "read_while"
    /\ UNCHANGED <<format_string, arguments, old_cursor, current_positional_index, new_current_index,
                   new_format_string, pieces, fmt, tables, next_piece>>

CursorReadUntil ==
    /\ pc \in CursorCalls
    /\ \E class \in UntilClasses : \E r \in {read_until(cursor, class)} :
           /\ cursor' = r.rest
           /\ ret' = CursorReturned(class, r.out)
    /\ pc' = "read_until"
    /\ UNCHANGED <<format_string, arguments, old_cursor, current_positional_index, new_current_index,
                   new_format_string, pieces, fmt, tables, next_piece>>

CursorReadUntilIncluded ==
    /\ pc \in CursorCalls
    /\ \E class \in UntilClasses : \E r \in {read_until_included(cursor, class)} :
           /\ cursor' = r.rest
           /\ ret' = CursorReturned(class, r.out)
    /\ pc' = "read_until_included"
    /\ UNCHANGED <<format_string, arguments, old_cursor, current_positional_index, new_current_index,
                   new_format_string, pieces, fmt, tables, next_piece>>

\* let old_cursor = cursor.clone()
CursorClone ==
    /\ pc \in CursorCalls
    /\ old_cursor' = <<cursor>>
    /\ pc' = "clone"
    /\ UNCHANGED <<format_string, arguments, cursor, ret, current_positional_index, new_current_index,
                   new_format_string, pieces, fmt, tables, next_piece>>

\* *cursor = old_cursor
CursorRestore ==
    /\ pc \in CursorCalls
    /\ old_cursor # <<>>
    /\ cursor' = old_cursor[1]
    /\ pc' = "restore"
    /\ UNCHANGED <<format_string, arguments, old_cursor, ret, current_positional_index, new_current_index,
                   new_format_string, pieces, fmt, tables, next_piece>>

NextCursor ==
    \/ CursorNext
    \/ CursorReadWhile
    \/ CursorReadUntil
    \/ CursorReadUntilIncluded
    \/ CursorClone
    \/ CursorRestore

SpecCursor == InitCursor /\ [][NextCursor]_vars

(***************************************************************************)
(* C25                                                                     *)
(***************************************************************************)
\* t is a suffix of s
IsSuffix(t, s) == Len(t) <= Len(s) /\ t = SubSeq(s, Len(s) - Len(t) + 1, Len(s))

\* a step that is one of the four read calls
ReadCall == pc' \in {"next", "read_while", "read_until", "read_until_included"}

\* C25: remaining() is always a suffix of the input, after any sequence of
\* next, read_while, read_until and read_until_included calls interleaved
\* with saving a clone and restoring it; each read call returns exactly the
\* text between remaining() before the call and remaining() after it; and no
\* call lengthens remaining() except a restore from a clone.
C25_SuffixInvariant ==
    /\ [](pc \in CursorCalls => IsSuffix(cursor, fmt))
    /\ [][ReadCall => cursor = ret'.out \o cursor']_vars
    /\ [][Len(cursor') > Len(cursor) => pc' = "restore"]_vars

\* a restore has put back the whole input after it was read to the end
C25_Witness ==
    /\ pc = "restore"
    /\ fmt = <<"a", "{", "0", "}">>
    /\ cursor = fmt
    /\ ret = CursorReturned("close_brace", fmt)

(***************************************************************************)
(* C26                                                                     *)
(***************************************************************************)
\* the length of the maximal prefix of t whose characters all satisfy the
\* predicate: every character of it does, and it ends t or is followed by a
\* character that does not
MaximalPrefixLen(t, class) ==
    CHOOSE n \in 0..Len(t) :
        /\ \A i \in 1..n : CharClass(class, t[i])
        /\ n = Len(t) \/ ~CharClass(class, t[n + 1])

\* C26: read_while(pred) returns the maximal prefix of remaining() whose
\* characters all satisfy pred and leaves the cursor immediately after it:
\* the first character that does not satisfy pred is not consumed; when the
\* first character fails pred or the input is empty the result is empty and
\* the cursor unmoved; when every remaining character satisfies pred the
\* whole remainder is returned and the cursor is at the end.
\* read_until(pred) gives the result and the cursor of read_while(not pred).
C26_ReadWhile ==
    /\ [][pc' = "read_while" =>
            /\ ret'.out = SubSeq(cursor, 1, MaximalPrefixLen(cursor, ret'.pred))
            /\ cursor' = SubSeq(cursor, MaximalPrefixLen(cursor, ret'.pred) + 1, Len(cursor))
            /\ (cursor = <<>> \/ ~CharClass(ret'.pred, Head(cursor)))
                  => (ret'.out = <<>> /\ cursor' = cursor)
            /\ (\A i \in 1..Len(cursor) : CharClass(ret'.pred, cursor[i]))
                  => (ret'.out = cursor /\ cursor' = <<>>)
            /\ cursor' # <<>> => ~CharClass(ret'.pred, Head(cursor'))]_vars
    /\ [][pc' = "read_until" =>
            /\ ret'.out = read_while(cursor, Negated(ret'.pred)).out
            /\ cursor' = read_while(cursor, Negated(ret'.pred)).rest]_vars

\* read_while has read a0 of a0{a and stopped in front of the brace
C26_Witness ==
    /\ pc = "read_while"
    /\ fmt = <<"a", "0", "{", "a">>
    /\ ret = CursorReturned("xid_continue", <<"a", "0">>)
    /\ cursor = <<"{", "a">>

(***************************************************************************)
(* C27                                                                     *)
(***************************************************************************)
\* the slot indices of the list process_pieces returned
ReturnedSlots == {ret.arg_indices[k].index : k \in 1..Len(ret.arg_indices)}

\* C27: whenever process_pieces succeeds with n caller arguments and m
\* captured names, every slot index of the returned list is in 0..n+m-1,
\* every index in 0..n-1 occurs (no unused caller argument) and every index
\* in n..n+m-1 occurs (each captured name is referenced); so the emission
\* stage, which indexes the n+m argument expressions by slot index, finds an
\* expression for every entry.
C27_SlotsInRange ==
    /\ pc = "done" =>
          /\ \A i \in ReturnedSlots : i >= 0 /\ i <= Len(arguments) + Len(ret.new_args) - 1
          /\ \A i \in 0..(Len(arguments) - 1) : i \in ReturnedSlots
          /\ \A i \in Len(arguments)..(Len(arguments) + Len(ret.new_args) - 1) : i \in ReturnedSlots
    /\ pc = "emitted" =>
          /\ Len(ret.output.call.fmt_args) = Len(tables.arg_indices)
          /\ \A k \in 1..Len(tables.arg_indices) :
                tables.arg_indices[k].index + 1
                    \in DOMAIN arg_exprs(arguments, tables.new_args)

\* {a}-{}-{a} with one unnamed argument: slots 1, 0, 1 over one caller
\* argument and one captured name
C27_Witness ==
    /\ pc = "done"
    /\ format_string = Tmpl_a_e_a
    /\ arguments = Unnamed1
    /\ ret.new_args = << <<"a">> >>
    /\ Slots(ret.arg_indices) = <<1, 0, 1>>

(***************************************************************************)
(* C28                                                                     *)
(***************************************************************************)
\* longest template, in characters, of the loop population
MaxLoopLen == 4

LoopAlphabet == {"{", "}", "a"}

LoopTemplates == UNION {[1..n -> LoopAlphabet] : n \in 0..MaxLoopLen}

InitLoop == \E t \in LoopTemplates : Entered(t, <<>>)

\* the loop of parse_format_string, and what follows it, always taking its
\* next step
SpecLoopFair == InitLoop /\ [][Next]_vars /\ WF_vars(Next)

\* the number of `{` in s
CountOpen(s) == Cardinality({i \in 1..Len(s) : s[i] = "{"})

\* what the cursor has gone past
GonePast == SubSeq(format_string, 1, Len(format_string) - Len(cursor))

\* an iteration of the loop of parse_format_string after which the loop goes on
Continues == pc = "parse_format_string" /\ pc' = "parse_format_string"

\* C28: parse_format_string terminates on every finite template: each
\* iteration either stops or strictly shortens cursor.remaining(), a `{{`
\* by two characters and a placeholder by at least its opening `{`; so the
\* iterations that go on are at most as many as the characters of the
\* template, and the pieces at most as many as its `{`.
C28_Terminates ==
    /\ <>(pc # "parse_format_string")
    /\ [][Continues => Len(cursor') < Len(cursor)]_vars
    /\ [][(Continues /\ pieces' = pieces) => Len(cursor') <= Len(cursor) - 2]_vars
    /\ [][(Continues /\ pieces' # pieces)
            => (Len(pieces') = Len(pieces) + 1 /\ CountOpen(GonePast') > CountOpen(GonePast))]_vars
    /\ [](/\ IsSuffix(cursor, format_string)
          /\ Len(pieces) <= CountOpen(GonePast)
          /\ Len(pieces) <= CountOpen(format_string)
          /\ Len(cursor) <= Len(format_string))

\* {{{} has been read to its end in two iterations and a last one that stopped
C28_Witness ==
    /\ format_string = <<"{", "{", "{", "}">>
    /\ pc = "process_pieces"
    /\ arguments = <<>>
    /\ cursor = <<>>
    /\ Len(pieces) = 1
    /\ new_format_string = <<"{", "{", "{", "0", "}">>

(***************************************************************************)
(* Templates made of placeholders that fail in different ways, with the    *)
(* argument lists of Init                                                  *)
(***************************************************************************)
\* the fragments, each with the error process_fmt stops with on it
ErrorFrags ==
    << [text |-> <<"{", "0", "z", "}">>, err |-> "invalid format string"],
       [text |-> <<"{", ":", ".", "}">>, err |-> "invalid count in format string"],
       [text |-> <<"{", "_", "}">>,
        err |-> "invalid argument: argument name cannot be a single underscore"],
       [text |-> <<"{", "}">>, err |-> ""],
       [text |-> <<"{", "1", "}">>, err |-> ""],
       [text |-> <<"{", "a", "}">>, err |-> ""],
       [text |-> <<"{", ":", "5", "$", "}">>, err |-> ""],
       [text |-> <<"{", "{">>, err |-> ""],
       [text |-> <<"-">>, err |-> ""] >>

ErrorTemplates ==
    {Concat([i \in 1..Len(f) |-> ErrorFrags[f[i]].text]) :
        f \in UNION {[1..n -> 1..Len(ErrorFrags)] : n \in 0..MaxFrags}}

InitErrors == \E t \in ErrorTemplates : \E a \in ArgLists : Entered(t, a)

SpecErrors == InitErrors /\ [][Next]_vars

(***************************************************************************)
(* C29                                                                     *)
(***************************************************************************)
\* the fragment the text t starts with
FragAt(t) ==
    CHOOSE k \in 1..Len(ErrorFrags) :
        /\ Len(ErrorFrags[k].text) <= Len(t)
        /\ SubSeq(t, 1, Len(ErrorFrags[k].text)) = ErrorFrags[k].text

\* the error of the leftmost malformed placeholder of t, "" when it has none
RECURSIVE LeftmostError(_)
LeftmostError(t) ==
    IF t = <<>> THEN ""
    ELSE IF ErrorFrags[FragAt(t)].err # "" THEN ErrorFrags[FragAt(t)].err
    ELSE LeftmostError(SubSeq(t, Len(ErrorFrags[FragAt(t)].text) + 1, Len(t)))

\* the references of the pieces from piece p on, in scan order: position,
\* width, precision of each piece
RECURSIVE RefsFrom(_)
RefsFrom(p) ==
    IF p > Len(pieces) THEN <<>>
    ELSE SelectSeq(<<pieces[p].arg_kind_position, pieces[p].arg_kind_width,
                     pieces[p].arg_kind_precision>>, LAMBDA r : r # NoArg)
         \o RefsFrom(p + 1)

\* the references that are indices no caller argument has
BadRefs == {k \in 1..Len(RefsFrom(1)) :
               RefsFrom(1)[k].kind = "Positional" /\ RefsFrom(1)[k].index >= Len(arguments)}

FirstBadRef == CHOOSE k \in BadRefs : \A h \in BadRefs : k <= h

\* the caller arguments (zero-based) that no reference of the template names
NeverNamed ==
    {i \in 0..(Len(arguments) - 1) :
        \A k \in 1..Len(RefsFrom(1)) :
            /\ ~(RefsFrom(1)[k].kind = "Positional" /\ RefsFrom(1)[k].index = i)
            /\ ~(RefsFrom(1)[k].kind = "Named" /\ arguments[i + 1].named
                 /\ RefsFrom(1)[k].name = arguments[i + 1].name)}

ArgumentListMessages ==
    {"positional arguments cannot follow named arguments", "duplicate argument named",
     "invalid positional argument index", "named argument not used",
     "positional argument not used"}

\* C29: error precedence is fixed by the order of the stages.  A syntax error
\* of the template is reported before any error of the argument list, and it
\* is the error of the leftmost malformed placeholder; in process_pieces
\* "positional arguments cannot follow named arguments" comes before
\* "duplicate argument named", which comes before the first failing reference
\* in scan order, and an unused argument is reported only when every
\* reference of every piece resolved.
C29_ErrorPrecedence ==
    /\ [](pc \in {"done", "failed"} =>
            IF LeftmostError(format_string) # ""
            THEN ret = Failed(Err(LeftmostError(format_string)))
            ELSE IF BadOrder THEN ret = Failed(OrderError)
            ELSE IF Repeats # {} THEN ret = Failed(DuplicateError)
            ELSE IF BadRefs # {}
            THEN ret = Failed(ErrIndex("invalid positional argument index",
                                       RefsFrom(1)[FirstBadRef].index))
            ELSE IF NeverNamed # {}
            THEN /\ ret.err.msg \in {"named argument not used", "positional argument not used"}
                 /\ next_piece > Len(pieces)
                 /\ Len(tables.arg_indices) = Len(RefsFrom(1))
            ELSE pc = "done")
    /\ [][(pc' = "failed" /\ ret'.err.msg \in ArgumentListMessages)
            => (pc \in {"process_pieces", "resolve"} /\ cursor = <<>>)]_vars
    /\ [][(pc' = "failed" /\ pc = "resolve") => (~BadOrder /\ Repeats = {})]_vars

\* {_}{:.} with a named argument before an unnamed one: of the two malformed
\* placeholders and the misordered arguments, the underscore is reported
C29_Witness ==
    /\ pc = "failed"
    /\ format_string = <<"{", "_", "}", "{", ":", ".", "}">>
    /\ arguments = <<NamedArgument(<<"a">>), UnnamedArgument>>
    /\ ret = Failed(Err("invalid argument: argument name cannot be a single underscore"))

(***************************************************************************)
(* The flag parsers on their own, as in SpecParse, together with           *)
(* placeholders whose format spec is any sequence of flag characters       *)
(***************************************************************************)
\* longest format spec, in characters, of the flag population
MaxFlagLen == 4

FlagAlphabet == {"^", "+", "#", "0", "1", "$", ".", "*"}

FlagTexts == UNION {[1..n -> FlagAlphabet] : n \in 0..MaxFlagLen}

\* {: flags }, after an escaped brace or after nothing
FlagTemplates ==
    {lead \o <<"{", ":">> \o text \o <<"}">> : lead \in {<<>>, <<"{", "{">>}, text \in FlagTexts}

InitFlags ==
    \/ InitParse
    \/ \E t \in FlagTemplates : Entered(t, <<UnnamedArgument>>)

NextFlags ==
    \/ NextParse
    \/ Next

SpecFlags == InitFlags /\ [][NextFlags]_vars

(***************************************************************************)
(* C30                                                                     *)
(***************************************************************************)
\* what the cursor has gone past since the call
Taken == SubSeq(fmt, 1, Len(fmt) - Len(cursor))

\* the format spec of the placeholder f of the flag population
FlagsOf(f) == SubSeq(f, 3, Len(f) - 1)

\* the format spec after the fill and alignment, read as C20 says
PastAlign(w) ==
    IF Len(w) >= 2 /\ w[2] \in AlignMarkers THEN SubSeq(w, 3, Len(w))
    ELSE IF Len(w) >= 1 /\ w[1] \in AlignMarkers THEN SubSeq(w, 2, Len(w))
    ELSE w

\* t after one optional character of the set cs
PastOne(t, cs) == IF t # <<>> /\ t[1] \in cs THEN Tail(t) ELSE t

\* the format spec after align, sign, `#` and `0`, looked for in that order
PastZero(w) ==
    IF ZeroFlagAhead(PastOne(PastOne(PastAlign(w), {"+", "-"}), {"#"}))
    THEN Tail(PastOne(PastOne(PastAlign(w), {"+", "-"}), {"#"}))
    ELSE PastOne(PastOne(PastAlign(w), {"+", "-"}), {"#"})

\* the width read after the flags, and the precision read after the width
WidthRead(w) == CountOutcome(PastZero(w))
PrecisionRead(w) == PrecisionOutcome(WidthRead(w).cursor)

\* what the width and the precision are rewritten to
WidthWritten(c) ==
    IF c.kind = "Argument" THEN <<"1", "$">> ELSE c.integer

PrecisionWritten(p, after_width) ==
    IF p.kind = "None" THEN <<>>
    ELSE IF p.kind = "WithCount" /\ p.count.kind = "Integer" THEN <<".">> \o p.count.integer
    ELSE <<".">> \o (IF after_width THEN <<"2">> ELSE <<"1">>) \o <<"$">>

\* what the claim says a lone placeholder with the format spec w is rewritten to
FlagsRewritten(w) ==
    <<"{", "0", ":">> \o SubSeq(w, 1, Len(w) - Len(PastZero(w)))
    \o WidthWritten(WidthRead(w).ret.count)
    \o PrecisionWritten(PrecisionRead(w).ret.precision, WidthRead(w).ret.count.kind = "Argument")
    \o PrecisionRead(w).cursor \o <<"}">>

Tmpl_sign_after_alternate == <<"{", ":", "#", "+", "0", "$", "}">>
Tmpl_sign_before_alternate == <<"{", ":", "+", "#", "0", "$", "}">>

====
